---- MODULE Spec2Model ----
(***************************************************************************)
(* A model of the core of the SeeWasm symbolic execution engine:           *)
(*   - CFG refinement (WasmSSAEmulatorEngine.split_bbs),                   *)
(*   - the block emulator (emulate_basic_block / emulate_one_instruction   *)
(*     of both emulator files),                                            *)
(*   - the coverage tracker (init_coverage_bitmap / calculate_coverage),   *)
(*   - the WASI host models (WASIImportFunction.emul).                     *)
(* Each part has its own specification (SpecSplit, SpecEmul and SpecIso,   *)
(* SpecCov, SpecWasi); the variables of the other parts stay at their idle *)
(* values.                                                                 *)
(***************************************************************************)
EXTENDS Integers, Sequences, FiniteSets, TLC

VARIABLES
    \* ---- CFG refinement ----
    func_basic_blocks,   \* the list split_bbs walks and appends to
    cfg_edges,           \* self.cfg.edges (a list of Edge objects)
    cfg_basicblocks,     \* self.cfg.basicblocks
    split_i,             \* the while loop's i (1-based here)
    split_pc,            \* "loop" | "done" | "assert_failed" | "idle"
    orig_blocks,         \* the CFG builder's blocks (history)
    orig_edges,          \* the CFG builder's edges (history)
    \* ---- block emulator ----
    em_heap,             \* the mutable containers of all state objects, by reference
    em_states,           \* emulate_basic_block's states
    em_next,             \* emulate_basic_block's next_states
    em_instrs,           \* the instructions of the block being emulated
    em_ii,               \* position of the outer loop (instruction)
    em_si,               \* position of the inner loop (state)
    em_variant,          \* "eunomia" (emulator.py) | "octopus" (emulator_revise.py)
    em_pc,               \* "run" | "done" | "error" | "mutated" | "idle"
    em_halt,             \* the halt flag emulator_revise.py hands back
    em_hist,             \* history: what the last step was and what it saw
    \* ---- coverage tracker ----
    concerned_funcs,     \* self.concerned_funcs: function name -> instruction count
    call_graph,          \* self.cfg.call_graph: caller -> callees
    total_instructions,  \* self.total_instructions
    instruction_coverage_bitmap,  \* function name -> list of booleans
    instruction_coverage,         \* function name -> <<visited, size>>
    cov_logged,          \* the visited count of the last line appended to the log
    cov_pc,              \* "init" | "run" | "looping" | "assert_failed" | "idle"
    \* the inputs of count_instrs, kept where count_instrs itself is a step
    cfg_functions,       \* self.cfg.functions: function name -> len(f.instructions)
    ana_elems,           \* self.ana.elements[0]["elems"], by function name
    cov_entry,           \* Configuration.get_entry(), by function name
    \* ---- WASI host models ----
    wasi_stack,          \* state.symbolic_stack
    wasi_memory,         \* state.symbolic_memory, byte by byte
    wasi_constraints,    \* state.constraints
    wasi_args,           \* state.args
    wasi_layout,         \* the addresses the program hands to the host calls
    wasi_file_sys,       \* state.file_sys: fd -> name, status, flag, content
    wasi_call,           \* the import being called, "none" otherwise
    wasi_pc,             \* "run" | "call" | "returned" | "exited" | "aborted" | "idle"
    wasi_hist,           \* history: the calls made so far
    wasi_clock,          \* datetime.now(), in half seconds since the run began
    \* ---- entry state: globals ----
    ana_globals,         \* self.ana.globals: (type, initial value) per index
    exported_func_names, \* self.exported_func_names
    entry_func_name,     \* the entry function init_state is called for
    concrete_globals,    \* Configuration.get_concrete_globals()
    state_globals,       \* state.globals: index -> value
    glob_pc,             \* "init" | "done" | "raised" | "idle"
    \* ---- C library helpers: strings of the data section ----
    data_section,        \* the data_section dict: (lo, hi) -> bytes, in insertion order
    start_pointer,       \* the address the string is asked at
    str_result,          \* the string C_extract_string_by_start_pointer extracted
    str_pc               \* "call" | "returned" | "raised" | "idle"

split_vars == <<func_basic_blocks, cfg_edges, cfg_basicblocks, split_i,
                split_pc, orig_blocks, orig_edges>>

emul_vars == <<em_heap, em_states, em_next, em_instrs, em_ii, em_si,
               em_variant, em_pc, em_halt, em_hist>>

cov_vars == <<concerned_funcs, call_graph, total_instructions,
              instruction_coverage_bitmap, instruction_coverage, cov_logged,
              cov_pc, cfg_functions, ana_elems, cov_entry>>

wasi_vars == <<wasi_stack, wasi_memory, wasi_constraints, wasi_args,
               wasi_layout, wasi_file_sys, wasi_call, wasi_pc, wasi_hist,
               wasi_clock>>

glob_vars == <<ana_globals, exported_func_names, entry_func_name,
               concrete_globals, state_globals, glob_pc>>

str_vars == <<data_section, start_pointer, str_result, str_pc>>

vars == <<split_vars, emul_vars, cov_vars, wasi_vars, glob_vars, str_vars>>

NotSplit == <<emul_vars, cov_vars, wasi_vars, glob_vars, str_vars>>
NotEmul == <<split_vars, cov_vars, wasi_vars, glob_vars, str_vars>>

NotCov == <<split_vars, emul_vars, wasi_vars, glob_vars, str_vars>>

NotWasi == <<split_vars, emul_vars, cov_vars, glob_vars, str_vars>>

NotGlob == <<split_vars, emul_vars, cov_vars, wasi_vars, str_vars>>

NotStr == <<split_vars, emul_vars, cov_vars, wasi_vars, glob_vars>>

\* ------------------------------------------------------------------------
\* Bounds of the model
\* ------------------------------------------------------------------------
MaxInstrs == 3
MaxEdges == 1
MaxBlockLen == 4
MaxCons == 2
MaxFuncSize == 2
MaxArgs == 2
MaxStrLen == 2
MaxIovs == 2
MaxIovLen == 2
MaxFileLen == 3
MaxContent == 4
MaxGlobals == 2
MaxSeekCalls == 3
MaxClock == 3
MaxCalls == 3
MaxSections == 2
MaxDataLen == 2

\* ------------------------------------------------------------------------
\* Helpers
\* ------------------------------------------------------------------------
Range(s) == {s[k] : k \in DOMAIN s}

IsPrefix(p, s) == Len(p) <= Len(s) /\ SubSeq(s, 1, Len(p)) = p

RECURSIVE SetToSeq(_)
SetToSeq(S) ==
    IF S = {} THEN <<>>
    ELSE LET x == CHOOSE y \in S : TRUE IN <<x>> \o SetToSeq(S \ {x})

\* the subsets of S with at most k elements
RECURSIVE SubsetsUpTo(_, _)
SubsetsUpTo(S, k) ==
    IF k = 0 THEN {{}}
    ELSE LET smaller == SubsetsUpTo(S, k - 1)
         IN smaller \cup {s \cup {x} : s \in smaller, x \in S}

\* ========================================================================
\* CFG refinement: WasmSSAEmulatorEngine.split_bbs
\* ========================================================================

\* a plausible slip: the edge between two parts is given another kind
EdgeConditional == "conditional_true"

EDGE_FALLTHROUGH == "fallthrough"
EdgeKinds == {"fallthrough", "conditional_true", "conditional_false",
              "unconditional"}
\* the kinds the drawn CFGs use for the builder's edges
OrigEdgeKinds == {"fallthrough", "conditional_true"}
InstrNames == {"call", "call_indirect", "i32.add"}

HexDigits == <<"0", "1", "2", "3", "4", "5", "6", "7",
               "8", "9", "a", "b", "c", "d", "e", "f">>

\* hex(n)[2:] : the lower-case hexadecimal digits of n, most significant first
RECURSIVE Hex(_)
Hex(n) ==
    IF n < 16 THEN <<HexDigits[n + 1]>>
    ELSE Hex(n \div 16) \o <<HexDigits[(n % 16) + 1]>>

HexVal(d) == CHOOSE k \in 0..15 : HexDigits[k + 1] = d

\* int(s, 16)
RECURSIVE ParseHex(_)
ParseHex(s) ==
    IF Len(s) = 0 THEN 0
    ELSE 16 * ParseHex(SubSeq(s, 1, Len(s) - 1)) + HexVal(s[Len(s)])

\* f"block_{func_index}_{hex(start_offset)[2:]}", kept as the three parts that
\* name.split('_') gives back
BlockName(func_index, start_offset) == <<"block", func_index, Hex(start_offset)>>

\* the sort key of split_bbs: int(x.name.split('_')[2], 16)
SortKey(bb) == ParseHex(bb.name[3])

\* Edge(node_from, node_to, type)
Edge(node_from, node_to, type) ==
    [node_from |-> node_from, node_to |-> node_to, type |-> type]

IsCallName(name) == name = "call" \/ name = "call_indirect"

\* a plausible slip: only 'call' is recognised
SplitIndexOnlyCall(instructions) ==
    LET hits == {k \in 1..Len(instructions) :
                    /\ instructions[k].name = "call"
                    /\ k # Len(instructions)}
    IN IF hits = {} THEN 0 ELSE CHOOSE k \in hits : \A h \in hits : k <= h

\* the inner for loop of split_bbs: the first position (1-based) holding a
\* call or call_indirect that is not the block's last instruction; 0 when the
\* loop runs to its end without splitting
SplitIndex(instructions) ==
    LET hits == {k \in 1..Len(instructions) :
                    /\ IsCallName(instructions[k].name)
                    /\ k # Len(instructions)}
    IN IF hits = {} THEN 0 ELSE CHOOSE k \in hits : \A h \in hits : k <= h

\* a plausible slip: the edges are left where they were
RetargetEdgesNot(edges, from_name, to_name) == edges

\* "if there are edges start from bb, make them start from new_bb"
RetargetEdges(edges, from_name, to_name) ==
    [k \in DOMAIN edges |->
        IF edges[k].node_from = from_name
        THEN [edges[k] EXCEPT !.node_from = to_name]
        ELSE edges[k]]

\* a plausible slip: the first part keeps the end_instr of the whole block
FirstPartKeepsEnd(bb, k) ==
    [bb EXCEPT !.end_offset = bb.instructions[k].offset_end,
               !.instructions = SubSeq(bb.instructions, 1, k)]

\* the first part: bb with end_offset, end_instr and instructions rewritten
FirstPart(bb, k) ==
    [bb EXCEPT !.end_offset = bb.instructions[k].offset_end,
               !.end_instr = bb.instructions[k],
               !.instructions = SubSeq(bb.instructions, 1, k)]

\* new_bb = BasicBlock() and its fields
NewBlock(bb, k) ==
    LET second_part_ins == SubSeq(bb.instructions, k + 1, Len(bb.instructions))
        next_ins == bb.instructions[k + 1]
        func_index == bb.name[2]
    IN [name |-> BlockName(func_index, next_ins.offset),
        start_offset |-> next_ins.offset,
        start_instr |-> next_ins,
        end_instr |-> second_part_ins[Len(second_part_ins)],
        end_offset |-> second_part_ins[Len(second_part_ins)].offset_end,
        instructions |-> second_part_ins]

\* sorted(func_basic_blocks, key=...): a stable sort by SortKey
RECURSIVE InsertSorted(_, _)
InsertSorted(bb, s) ==
    IF Len(s) = 0 THEN <<bb>>
    ELSE IF SortKey(s[1]) <= SortKey(bb)
         THEN <<s[1]>> \o InsertSorted(bb, Tail(s))
         ELSE <<bb>> \o s

RECURSIVE SortBlocks(_)
SortBlocks(s) ==
    IF Len(s) = 0 THEN <<>>
    ELSE InsertSorted(s[Len(s)], SortBlocks(SubSeq(s, 1, Len(s) - 1)))

\* ---- the CFG builder's output (outside the repository's core): a function
\* ---- body of n instructions cut into consecutive basic blocks
InstrSize(name) ==
    IF name = "call" THEN 2 ELSE IF name = "call_indirect" THEN 3 ELSE 1

RECURSIVE OffsetOf(_, _)
OffsetOf(names, k) ==
    IF k = 1 THEN 14 ELSE OffsetOf(names, k - 1) + InstrSize(names[k - 1])

MkInstr(names, k) ==
    [name |-> names[k],
     offset |-> OffsetOf(names, k),
     offset_end |-> OffsetOf(names, k) + InstrSize(names[k]) - 1]

MkBlock(func_index, names, lo, hi) ==
    [name |-> BlockName(func_index, OffsetOf(names, lo)),
     start_offset |-> OffsetOf(names, lo),
     start_instr |-> MkInstr(names, lo),
     end_instr |-> MkInstr(names, hi),
     end_offset |-> OffsetOf(names, hi) + InstrSize(names[hi]) - 1,
     instructions |-> [k \in 1..(hi - lo + 1) |-> MkInstr(names, lo + k - 1)]]

\* the blocks of a body of n instructions cut after each position of cuts
RECURSIVE MkBlocks(_, _, _, _, _)
MkBlocks(func_index, names, cuts, lo, n) ==
    IF lo > n THEN <<>>
    ELSE LET later == {c \in cuts : c >= lo}
             hi == IF later = {} THEN n
                   ELSE CHOOSE c \in later : \A d \in later : c <= d
         IN <<MkBlock(func_index, names, lo, hi)>>
            \o MkBlocks(func_index, names, cuts, hi + 1, n)

StrIdle ==
    /\ data_section = <<>>
    /\ start_pointer = 0
    /\ str_result = <<>>
    /\ str_pc = "idle"

GlobIdle ==
    /\ ana_globals = <<>>
    /\ exported_func_names = {}
    /\ entry_func_name = ""
    /\ concrete_globals = FALSE
    /\ state_globals = <<>>
    /\ glob_pc = "idle"

WasiIdle ==
    /\ wasi_stack = <<>>
    /\ wasi_memory = <<>>
    /\ wasi_constraints = <<>>
    /\ wasi_args = <<>>
    /\ wasi_layout = <<>>
    /\ wasi_file_sys = <<>>
    /\ wasi_call = "none"
    /\ wasi_pc = "idle"
    /\ wasi_hist = <<>>
    /\ wasi_clock = 0

\* count_instrs is over (or not in use): its inputs are not kept
CountInputsDropped ==
    /\ cfg_functions = <<>>
    /\ ana_elems = {}
    /\ cov_entry = ""

CovIdle ==
    /\ concerned_funcs = <<>>
    /\ call_graph = <<>>
    /\ total_instructions = 0
    /\ instruction_coverage_bitmap = <<>>
    /\ instruction_coverage = <<>>
    /\ cov_logged = -1
    /\ cov_pc = "idle"
    /\ CountInputsDropped

EmulIdle ==
    /\ em_heap = <<>>
    /\ em_states = <<>>
    /\ em_next = <<>>
    /\ em_instrs = <<>>
    /\ em_ii = 0
    /\ em_si = 0
    /\ em_variant = "idle"
    /\ em_pc = "idle"
    /\ em_halt = FALSE
    /\ em_hist = [kind |-> "idle"]

SplitIdle ==
    /\ func_basic_blocks = <<>>
    /\ cfg_edges = <<>>
    /\ cfg_basicblocks = <<>>
    /\ split_i = 0
    /\ split_pc = "idle"
    /\ orig_blocks = <<>>
    /\ orig_edges = <<>>

InitSplit ==
    \E n \in 1..MaxInstrs :
    \E names \in [1..n -> InstrNames] :
    \E cuts \in SUBSET (1..(n - 1)) :
        LET blocks == MkBlocks("1", names, cuts, 1, n)
            bnames == {blocks[k].name : k \in DOMAIN blocks}
            cands == {Edge(f, t, ty) : f \in bnames, t \in bnames, ty \in OrigEdgeKinds}
        IN \E es \in SubsetsUpTo(cands, MaxEdges) :
            /\ func_basic_blocks = blocks
            /\ orig_blocks = blocks
            /\ cfg_edges = SetToSeq(es)
            /\ orig_edges = SetToSeq(es)
            /\ cfg_basicblocks = <<>>
            /\ split_i = 1
            /\ split_pc = "loop"
            /\ EmulIdle
            /\ CovIdle
            /\ WasiIdle
            /\ GlobIdle
            /\ StrIdle

\* one round of "while i < len(func_basic_blocks)"
SplitStep ==
    /\ split_pc = "loop"
    /\ split_i <= Len(func_basic_blocks)
    /\ LET bb == func_basic_blocks[split_i]
           k == SplitIndex(bb.instructions)
       IN IF k = 0
          THEN UNCHANGED <<func_basic_blocks, cfg_edges>>
          ELSE LET new_bb == NewBlock(bb, k)
               IN /\ func_basic_blocks' =
                        Append([func_basic_blocks EXCEPT ![split_i] = FirstPart(bb, k)],
                               new_bb)
                  /\ cfg_edges' =
                        Append(RetargetEdges(cfg_edges, bb.name, new_bb.name),
                               Edge(bb.name, new_bb.name, EDGE_FALLTHROUGH))
    /\ split_i' = split_i + 1
    /\ UNCHANGED <<cfg_basicblocks, split_pc, orig_blocks, orig_edges>>
    /\ UNCHANGED NotSplit

\* after the while loop: the "dup block exist" assertion, the sort, the write back
SplitFinish ==
    /\ split_pc = "loop"
    /\ split_i > Len(func_basic_blocks)
    /\ IF Cardinality({func_basic_blocks[k].name : k \in DOMAIN func_basic_blocks})
            # Len(func_basic_blocks)
       THEN /\ split_pc' = "assert_failed"
            /\ UNCHANGED <<func_basic_blocks, cfg_basicblocks>>
       ELSE /\ func_basic_blocks' = SortBlocks(func_basic_blocks)
            /\ cfg_basicblocks' = cfg_basicblocks \o SortBlocks(func_basic_blocks)
            /\ split_pc' = "done"
    /\ UNCHANGED <<cfg_edges, split_i, orig_blocks, orig_edges>>
    /\ UNCHANGED NotSplit

\* ---- properties of split_bbs ----

\* the refined block that holds the last instruction of original block b
LastPartOf(b) ==
    CHOOSE r \in Range(cfg_basicblocks) :
        r.instructions[Len(r.instructions)] = b.instructions[Len(b.instructions)]

OrigBlockNamed(name) == CHOOSE b \in Range(orig_blocks) : b.name = name

NumCalls(b) ==
    Cardinality({k \in DOMAIN b.instructions :
                    b.instructions[k].name \in {"call", "call_indirect"}})

\* C1: after split_bbs has run, no instruction other than a block's last one
\* is named call or call_indirect, in the function's blocks and in
\* cfg.basicblocks alike.
C1_NoInteriorCall ==
    split_pc = "done" =>
        \A b \in Range(cfg_basicblocks) \cup Range(func_basic_blocks) :
            \A k \in 1..(Len(b.instructions) - 1) :
                b.instructions[k].name \notin {"call", "call_indirect"}

\* a block with several calls that also ends with a call has been refined
C1_Witness ==
    /\ split_pc = "done"
    /\ \E b \in Range(orig_blocks) :
          /\ NumCalls(b) >= 3
          /\ b.instructions[Len(b.instructions)].name = "call"
    /\ Len(cfg_basicblocks) >= 3

\* C2: every edge the CFG builder made leaves, after split_bbs, the last of
\* the blocks its source block was split into, with target and kind as they
\* were.
C2_EdgesLeaveLastPart ==
    split_pc = "done" =>
        /\ Len(cfg_edges) >= Len(orig_edges)
        /\ \A k \in DOMAIN orig_edges :
              /\ cfg_edges[k].node_to = orig_edges[k].node_to
              /\ cfg_edges[k].type = orig_edges[k].type
              /\ cfg_edges[k].node_from =
                    LastPartOf(OrigBlockNamed(orig_edges[k].node_from)).name

\* a self-loop on a block that was split twice has been moved
C2_Witness ==
    /\ split_pc = "done"
    /\ \E k \in DOMAIN orig_edges :
          /\ orig_edges[k].node_from = orig_edges[k].node_to
          /\ Len(OrigBlockNamed(orig_edges[k].node_from).instructions) = 3
          /\ Len(cfg_basicblocks) = 3
          /\ cfg_edges[k].node_from # orig_edges[k].node_from
          /\ cfg_edges[k].node_to = orig_edges[k].node_to

\* the refined blocks that original block b was split into
PartsOf(b) ==
    {r \in Range(cfg_basicblocks) :
        /\ b.start_offset <= r.start_offset
        /\ r.end_offset <= b.end_offset}

\* the part that begins with the instruction after the last one of part r
NextPart(b, r) ==
    CHOOSE q \in PartsOf(b) : q.start_offset = r.end_offset + 1

IsLastPart(b, r) == r.end_offset = b.end_offset

\* the positions in cfg.edges of the edges that leave the block named name
EdgesLeaving(name) == {k \in DOMAIN cfg_edges : cfg_edges[k].node_from = name}

\* C21: for every block that split_bbs splits into parts P0..Pk (k >= 1),
\* the refined CFG has exactly one edge leaving each Pi with i < k, and that
\* edge is a fall-through edge to P(i+1): the parts form a single
\* fall-through chain in instruction order.
C21_FallThroughChain ==
    split_pc = "done" =>
        \A b \in Range(orig_blocks) :
            \A r \in PartsOf(b) :
                ~IsLastPart(b, r) =>
                    /\ Cardinality(EdgesLeaving(r.name)) = 1
                    /\ \A k \in EdgesLeaving(r.name) :
                          /\ cfg_edges[k].type = "fallthrough"
                          /\ cfg_edges[k].node_to = NextPart(b, r).name
                          /\ NextPart(b, r).instructions[1]
                                = b.instructions[Len(r.instructions)
                                    + (CHOOSE j \in DOMAIN b.instructions :
                                          b.instructions[j] = r.instructions[1])]

\* a block that an edge left was split into three parts: the chain has two
\* edges and the builder's edge leaves the last part
C21_Witness ==
    /\ split_pc = "done"
    /\ Len(orig_blocks) = 1
    /\ Len(orig_edges) = 1
    /\ Cardinality(PartsOf(orig_blocks[1])) = 3
    /\ Len(cfg_edges) = 3
    /\ cfg_edges[2].type = "fallthrough"
    /\ cfg_edges[3].node_from = cfg_edges[2].node_to

\* the instruction lists of a sequence of blocks, one after the other
RECURSIVE ConcatInstrs(_)
ConcatInstrs(blocks) ==
    IF Len(blocks) = 0 THEN <<>>
    ELSE blocks[1].instructions \o ConcatInstrs(Tail(blocks))

\* C24: split_bbs only repartitions.  When the input blocks have pairwise
\* distinct names, the duplicate-name assertion never fails, and afterwards
\* the refined blocks have pairwise distinct names, are sorted by start
\* offset, their instruction lists concatenated in that order equal the
\* concatenation of the original blocks' lists, and every block's start_instr
\* and end_instr are its first and last instruction.
C24_OnlyRepartitions ==
    /\ split_pc # "assert_failed"
    /\ split_pc = "done" =>
          /\ func_basic_blocks = cfg_basicblocks
          /\ \A j, k \in DOMAIN cfg_basicblocks :
                j # k => cfg_basicblocks[j].name # cfg_basicblocks[k].name
          /\ \A j, k \in DOMAIN cfg_basicblocks :
                j < k => cfg_basicblocks[j].start_offset
                            < cfg_basicblocks[k].start_offset
          /\ ConcatInstrs(cfg_basicblocks) = ConcatInstrs(orig_blocks)
          /\ \A r \in Range(cfg_basicblocks) :
                /\ Len(r.instructions) >= 1
                /\ r.start_instr = r.instructions[1]
                /\ r.end_instr = r.instructions[Len(r.instructions)]
                /\ r.start_offset = r.start_instr.offset
                /\ r.end_offset = r.end_instr.offset_end

\* the first of two blocks was split: its second part was appended behind the
\* other block and the sort has put it back in place
C24_Witness ==
    /\ split_pc = "done"
    /\ Len(orig_blocks) = 2
    /\ Len(cfg_basicblocks) = 3
    /\ Cardinality(PartsOf(orig_blocks[1])) = 2
    /\ cfg_basicblocks[2].start_offset < orig_blocks[2].start_offset
    /\ cfg_basicblocks[3] = orig_blocks[2]

NextSplit == SplitStep \/ SplitFinish

SpecSplit == InitSplit /\ [][NextSplit]_vars

\* ========================================================================
\* Block emulator: emulate_basic_block / emulate_one_instruction
\* (eunomia/arch/wasm/emulator.py and octopus/arch/wasm/emulator_revise.py)
\* ========================================================================

\* A state object holds references (indexes of em_heap) to its mutable
\* containers, and its scalar fields.
Components == {"symbolic_stack", "local_var", "symbolic_memory", "constraints"}

\* an entry of state.constraints: a z3 BoolRef (bool = TRUE) or anything else
BoolCons(id, syms) == [bool |-> TRUE, id |-> id, syms |-> syms]
OtherCons(id) == [bool |-> FALSE, id |-> id, syms |-> {}]

IsBoolRef(c) == c.bool

\* what a state may hold in its constraint list when a block is entered
ConsAlphabet == {BoolCons(<<"g0", ">", "0">>, {"g0"}), OtherCons(<<"True">>),
                 OtherCons(<<"bv">>)}

RECURSIVE SeqsUpTo(_, _)
SeqsUpTo(S, n) ==
    IF n = 0 THEN {<<>>}
    ELSE LET shorter == SeqsUpTo(S, n - 1)
         IN shorter \cup {Append(q, x) : q \in shorter, x \in S}

\* list.remove(c): drop the first element equal to c
RECURSIVE RemoveFirst(_, _)
RemoveFirst(cs, c) ==
    IF Len(cs) = 0 THEN cs
    ELSE IF cs[1] = c THEN Tail(cs)
         ELSE <<cs[1]>> \o RemoveFirst(Tail(cs), c)

\* "for c in state.constraints: if not isinstance(c, BoolRef):
\*      state.constraints.remove(c)": the list iterator keeps a position, which
\* a removal does not move back
RECURSIVE FilterLoop(_, _)
FilterLoop(cs, idx) ==
    IF idx > Len(cs) THEN cs
    ELSE IF ~IsBoolRef(cs[idx])
         THEN FilterLoop(RemoveFirst(cs, cs[idx]), idx + 1)
         ELSE FilterLoop(cs, idx + 1)

RECURSIVE FilterLoopInverted(_, _)
FilterLoopInverted(cs, idx) ==
    IF idx > Len(cs) THEN cs
    ELSE IF IsBoolRef(cs[idx])
         THEN FilterLoopInverted(RemoveFirst(cs, cs[idx]), idx + 1)
         ELSE FilterLoopInverted(cs, idx + 1)

\* a plausible slip: the isinstance test the wrong way round
FilterConstraintsInverted(cs) == FilterLoopInverted(cs, 1)

\* the filtering step at the start of emulate_one_instruction
FilterConstraints(cs) == FilterLoop(cs, 1)

\* copy.deepcopy(state): fresh containers with equal contents
Deepcopy(h, s) ==
    [heap |-> h \o <<h[s.symbolic_stack], h[s.local_var],
                     h[s.symbolic_memory], h[s.constraints]>>,
     state |-> [s EXCEPT !.symbolic_stack = Len(h) + 1,
                         !.local_var = Len(h) + 2,
                         !.symbolic_memory = Len(h) + 3,
                         !.constraints = Len(h) + 4]]

\* a plausible slip: the state itself is appended, not a copy of it
AppendContinuationAlias(h, next_states, s) ==
    [heap |-> h, next_states |-> Append(next_states, s)]

\* emulator_revise.py: next_states.append(copy.deepcopy(state))
AppendContinuation(h, next_states, s) ==
    LET c == Deepcopy(h, s)
    IN [heap |-> c.heap, next_states |-> Append(next_states, c.state)]

\* a plausible slip: next_states is not started afresh for each instruction
AdvanceStatesKeep(states, next_states) == states \o next_states

\* "states = next_states" at the end of one instruction's round
AdvanceStates(states, next_states) == next_states

\* ---- instruction handlers (instructions/*.py are not part of the sources;
\* ---- their behaviour follows the design, sections 4.3 and 4.4)
InstrKinds == {"i32.const", "local.get", "select", "nop", "return", "unreachable"}
Terminators == {"return", "unreachable"}
Literals == {"0", "1"}

Push(h, s, v) == [h EXCEPT ![s.symbolic_stack] = Append(@, v)]
Top(h, s) == h[s.symbolic_stack][Len(h[s.symbolic_stack])]
PopN(h, s, n) ==
    [h EXCEPT ![s.symbolic_stack] = SubSeq(@, 1, Len(@) - n)]
AddConstraint(h, s, c) == [h EXCEPT ![s.constraints] = Append(@, c)]

\* the branch condition is satisfiable with the constraints already held
Feasible(h, s, c, negated) == negated \notin Range(h[s.constraints])

\* the in-place effect of the instructions that never fork
InPlace(name, h, s) ==
    CASE name = "i32.const" -> [heap |-> Push(h, s, "1"), state |-> s]
      [] name = "local.get" -> [heap |-> Push(h, s, h[s.local_var][1]), state |-> s]
      [] name = "return" ->
            [heap |-> h,
             state |-> [s EXCEPT !.status = "returned",
                                 !.ret = IF Len(h[s.symbolic_stack]) > 0
                                         THEN Top(h, s) ELSE "None"]]
      [] name = "unreachable" ->
            [heap |-> h, state |-> [s EXCEPT !.status = "trapped"]]
      [] OTHER -> [heap |-> h, state |-> s]

\* select with a concrete condition: pops val1, val2, cond and pushes one of them
SelectConcrete(h, s) ==
    LET st == h[s.symbolic_stack]
        n == Len(st)
        chosen == IF st[n] # "0" THEN st[n - 2] ELSE st[n - 1]
    IN [heap |-> Push(PopN(h, s, 3), s, chosen), state |-> s]

\* one successor of a fork: a copy of the state that pushes v and holds c
ForkBranch(h, s, v, c) ==
    LET cp == Deepcopy(h, s)
    IN [heap |-> AddConstraint(Push(PopN(cp.heap, cp.state, 3), cp.state, v),
                               cp.state, c),
        state |-> cp.state]

\* select with a symbolic condition: one successor per feasible branch
SelectFork(h, s) ==
    LET st == h[s.symbolic_stack]
        n == Len(st)
        cond == st[n]
        ne == BoolCons(<<cond, "!=", "0">>, {cond})
        eq == BoolCons(<<cond, "==", "0">>, {cond})
        a == ForkBranch(h, s, st[n - 2], ne)
        hb == IF Feasible(h, s, ne, eq) THEN a.heap ELSE h
        b == ForkBranch(hb, s, st[n - 1], eq)
        ra == IF Feasible(h, s, ne, eq) THEN <<a.state>> ELSE <<>>
        rb == IF Feasible(h, s, eq, ne) THEN <<b.state>> ELSE <<>>
    IN [heap |-> IF Feasible(h, s, eq, ne) THEN b.heap ELSE hb,
        state |-> s, none |-> FALSE, ret |-> ra \o rb,
        halt |-> FALSE]

\* instr_obj.emulate(state, ...) as emulate_one_instruction hands it back:
\* none = TRUE stands for the result None, ret is the list otherwise.
\* emulator_revise.py returns None itself for the groups that do not branch;
\* emulator.py takes whatever the handler returns: a list of states, or None
\* from a handler that lets the state continue in place (here: nop).
Handler(variant, name, h, s) ==
    IF name = "select" /\ Top(h, s) \notin Literals
    THEN SelectFork(h, s)
    ELSE LET e == IF name = "select" THEN SelectConcrete(h, s)
                  ELSE InPlace(name, h, s)
             halt == name \in Terminators
         IN IF variant = "octopus" \/ name = "nop"
            THEN [heap |-> e.heap, state |-> e.state, none |-> TRUE,
                  ret |-> <<>>, halt |-> halt]
            ELSE LET c == Deepcopy(e.heap, e.state)
                 IN [heap |-> c.heap, state |-> e.state, none |-> FALSE,
                     ret |-> <<c.state>>, halt |-> halt]

\* the stack depth after a block's instructions, -1 when one of them would
\* find too few operands or follows a terminator (the module is validated)
RECURSIVE DepthAfter(_, _, _)
DepthAfter(instrs, k, depth) ==
    IF k > Len(instrs) THEN depth
    ELSE IF instrs[k] \in Terminators
         THEN IF k = Len(instrs) THEN depth ELSE -1
         ELSE IF instrs[k] = "select"
              THEN IF depth >= 3 THEN DepthAfter(instrs, k + 1, depth - 2) ELSE -1
              ELSE IF instrs[k] = "nop"
                   THEN DepthAfter(instrs, k + 1, depth)
                   ELSE DepthAfter(instrs, k + 1, depth + 1)

Blocks == {b \in SeqsUpTo(InstrKinds, MaxBlockLen) : Len(b) > 0}

View(h, s) ==
    [symbolic_stack |-> h[s.symbolic_stack], local_var |-> h[s.local_var],
     symbolic_memory |-> h[s.symbolic_memory], constraints |-> h[s.constraints]]

\* what the operand stack may hold when a block is entered
InitStacks == {<<>>, <<"0", "1", "p0">>}

\* emulate_basic_block is entered with one state: the entry state of
\* init_state (empty stack, no constraints) or a state that earlier blocks
\* have worked on
InitEmulWith(ConsLists) ==
    \E variant \in {"eunomia", "octopus"} :
    \E stack \in InitStacks :
    \E instrs \in {b \in Blocks : DepthAfter(b, 1, Len(stack)) >= 0} :
    \E cons \in ConsLists :
        /\ em_variant = variant
        /\ em_instrs = instrs
        /\ em_heap = << stack, <<"p0">>, <<>>, cons >>
        /\ em_states = <<[symbolic_stack |-> 1, local_var |-> 2,
                          symbolic_memory |-> 3, constraints |-> 4,
                          status |-> "running", ret |-> "None",
                          instr |-> 0, pc |-> 0]>>
        /\ em_next = <<>>
        /\ em_ii = 1
        /\ em_si = 1
        /\ em_pc = "run"
        /\ em_halt = FALSE
        /\ em_hist = [kind |-> "init", init_cons |-> cons, init_stack |-> stack]
        /\ SplitIdle
        /\ CovIdle
        /\ WasiIdle
        /\ GlobIdle
        /\ StrIdle

InitEmul == InitEmulWith(SeqsUpTo(ConsAlphabet, MaxCons))

InitIso == InitEmulWith({<<>>, <<BoolCons(<<"g0", ">", "0">>, {"g0"})>>})

\* the body of "for state in states": emulate_one_instruction on one state
EmulateOne ==
    /\ em_pc = "run"
    /\ em_si <= Len(em_states)
    /\ LET name == em_instrs[em_ii]
           s0 == em_states[em_si]
           s1 == [s0 EXCEPT !.instr = em_ii,
                            !.pc = IF em_variant = "octopus" THEN @ + 1 ELSE @]
           pre == em_heap[s1.constraints]
           h1 == [em_heap EXCEPT ![s1.constraints] = FilterConstraints(@)]
           out == Handler(em_variant, name, h1, s1)
       IN /\ IF out.none
             THEN IF em_variant = "octopus"
                  THEN LET c == AppendContinuation(out.heap, em_next, out.state)
                       IN /\ em_heap' = c.heap
                          /\ em_next' = c.next_states
                          /\ em_pc' = "run"
                  ELSE \* next_states.extend(None) raises TypeError
                       /\ em_heap' = out.heap
                       /\ em_next' = em_next
                       /\ em_pc' = "error"
             ELSE /\ em_heap' = out.heap
                  /\ em_next' = em_next \o out.ret
                  /\ em_pc' = "run"
          /\ em_states' = [em_states EXCEPT ![em_si] = out.state]
          /\ em_halt' = IF em_variant = "octopus" THEN out.halt ELSE em_halt
          /\ em_hist' = [kind |-> "emulate", init_cons |-> em_hist.init_cons,
                         init_stack |-> em_hist.init_stack, pre_cons |-> pre, succ_lo |-> Len(em_next) + 1]
    /\ em_si' = em_si + 1
    /\ UNCHANGED <<em_instrs, em_ii, em_variant>>
    /\ UNCHANGED NotEmul

\* the end of one round of "for instruction in instructions", and the return
\* after the last one
AdvanceInstr ==
    /\ em_pc = "run"
    /\ em_si > Len(em_states)
    /\ em_states' = AdvanceStates(em_states, em_next)
    /\ em_next' = <<>>
    /\ em_si' = 1
    /\ IF em_ii = Len(em_instrs)
       THEN em_pc' = "done" /\ em_ii' = em_ii
       ELSE em_pc' = "run" /\ em_ii' = em_ii + 1
    /\ em_hist' = [kind |-> "advance", init_cons |-> em_hist.init_cons,
                   init_stack |-> em_hist.init_stack]
    /\ UNCHANGED <<em_heap, em_instrs, em_variant, em_halt>>
    /\ UNCHANGED NotEmul

Slots ==
    {<<"states", k>> : k \in DOMAIN em_states}
        \cup {<<"next", k>> : k \in DOMAIN em_next}

SlotState(slot) ==
    IF slot[1] = "states" THEN em_states[slot[2]] ELSE em_next[slot[2]]

SlotView(slot) == View(em_heap, SlotState(slot))

\* a later change to one container of one state (whatever handler makes it)
Mutate ==
    /\ em_pc \in {"run", "done"}
    /\ \E slot \in Slots : \E comp \in Components :
          /\ em_heap' = [em_heap EXCEPT ![SlotState(slot)[comp]] =
                            Append(@, IF comp = "constraints"
                                      THEN BoolCons(<<"later">>, {})
                                      ELSE "later")]
          /\ em_hist' = [kind |-> "mutate", init_cons |-> em_hist.init_cons,
                         init_stack |-> em_hist.init_stack, target |-> slot, comp |-> comp]
    /\ em_pc' = "mutated"
    /\ UNCHANGED <<em_states, em_next, em_instrs, em_ii, em_si, em_variant,
                   em_halt>>
    /\ UNCHANGED NotEmul

\* ---- what the report of a finished state shows (the reporter is not part
\* ---- of the sources; design, section 8)
Terminal(s) == s.status \in {"returned", "trapped"}

\* the symbols the solver assigns: those of the boolean constraints held
Solution(h, s) ==
    UNION {c.syms : c \in {d \in Range(h[s.constraints]) : IsBoolRef(d)}}

RECURSIVE BoolOnly(_)
BoolOnly(cs) ==
    IF Len(cs) = 0 THEN <<>>
    ELSE IF IsBoolRef(cs[1]) THEN <<cs[1]>> \o BoolOnly(Tail(cs))
         ELSE BoolOnly(Tail(cs))

\* the successors the last emulate_one_instruction call added to next_states
LastSuccessors == {k \in DOMAIN em_next : k >= em_hist.succ_lo}

C4_Original ==
    em_hist.kind = "emulate" =>
        \A k \in LastSuccessors :
            IsPrefix(em_hist.pre_cons, em_heap[em_next[k].constraints])

\* C4 (amended): the boolean constraints the state held before the call, in
\* their order, are a prefix of the boolean constraints of every successor;
\* boolean constraints are only appended, never removed or rewritten (the
\* filtering step may drop entries that are not boolean expressions).
C4_BoolPrefix ==
    em_hist.kind = "emulate" =>
        \A k \in LastSuccessors :
            IsPrefix(BoolOnly(em_hist.pre_cons),
                     BoolOnly(em_heap[em_next[k].constraints]))

\* a state that held a boolean and a non-boolean entry was forked
C4_Witness ==
    /\ em_hist.kind = "emulate"
    /\ \E c \in Range(em_hist.pre_cons) : ~IsBoolRef(c)
    /\ \E c \in Range(em_hist.pre_cons) : IsBoolRef(c)
    /\ Cardinality(LastSuccessors) = 2

\* the entry function is emulated from the entry state and no instruction
\* of it brings symbolic data in
NoSymbolicBranch ==
    /\ em_hist.init_cons = <<>>
    /\ em_hist.init_stack = <<>>
    /\ "local.get" \notin Range(em_instrs)
    /\ em_instrs[Len(em_instrs)] \in Terminators

HandlerResult ==
    LET s0 == em_states[em_si]
        s1 == [s0 EXCEPT !.instr = em_ii,
                         !.pc = IF em_variant = "octopus" THEN @ + 1 ELSE @]
        h1 == [em_heap EXCEPT ![s1.constraints] = FilterConstraints(@)]
    IN Handler(em_variant, em_instrs[em_ii], h1, s1)

AtEmulateOne == em_pc = "run" /\ em_si <= Len(em_states)

AtAdvanceInstr == em_pc = "run" /\ em_si > Len(em_states)

\* the containers of a state
Containers(s) == {s[comp] : comp \in Components}

\* the successor added last is a deep copy of the state the handler left:
\* equal contents in containers of its own
ContinuesAsCopy(out) ==
    /\ em_pc' = "run"
    /\ Len(em_next') = Len(em_next) + 1
    /\ SubSeq(em_next', 1, Len(em_next)) = em_next
    /\ View(em_heap', em_next'[Len(em_next')]) = View(out.heap, out.state)
    /\ Containers(em_next'[Len(em_next')]) \cap Containers(out.state) = {}

\* the remaining instructions get every successor: the pass over the states
\* goes on to the next state, and at its end the successors are the states of
\* the next instruction
RemainingApplied ==
    /\ AtEmulateOne => em_si' = em_si + 1 /\ em_ii' = em_ii
    /\ AtAdvanceInstr =>
          /\ em_states' = em_next
          /\ em_si' = 1
          /\ em_ii < Len(em_instrs) => (em_ii' = em_ii + 1 /\ em_pc' = "run")

\* C16: when a block is emulated, a handler result of None makes the input
\* state continue as exactly one successor that is a deep copy of it, and a
\* result that is a list replaces the input state by exactly the states of
\* the list; the remaining instructions of the block are then applied to
\* every successor.
C16_HandlerResult ==
    [][/\ (AtEmulateOne /\ HandlerResult.none) => ContinuesAsCopy(HandlerResult)
       /\ (AtEmulateOne /\ ~HandlerResult.none) =>
             (em_pc' = "run" /\ em_next' = em_next \o HandlerResult.ret)
       /\ RemainingApplied]_vars

\* the same of emulator_revise.py alone, which tests the result for None
C16_OctopusHandlerResult ==
    [][em_variant = "octopus" =>
          /\ (AtEmulateOne /\ HandlerResult.none) => ContinuesAsCopy(HandlerResult)
          /\ (AtEmulateOne /\ ~HandlerResult.none) =>
                (em_pc' = "run" /\ em_next' = em_next \o HandlerResult.ret)
          /\ RemainingApplied]_vars


\* the constraint list of the state the last emulate_one_instruction call
\* worked on, as the filtering step and the handler left it
FilteredCons == em_heap[em_states[em_si - 1].constraints]

\* C23: after the filtering step at the start of emulate_one_instruction,
\* every element of the state's constraint list is a boolean expression,
\* whatever number and arrangement of non-boolean entries the list held
\* before (two or more adjacent ones included), and the boolean entries keep
\* their relative order.
C23_AllBooleanAfterFilter ==
    em_hist.kind = "emulate" =>
        /\ \A c \in Range(FilteredCons) : IsBoolRef(c)
        /\ BoolOnly(FilteredCons) = BoolOnly(em_hist.pre_cons)

\* the part of it on the order of the boolean entries alone
C23_BooleanOrderKept ==
    em_hist.kind = "emulate" =>
        BoolOnly(FilteredCons) = BoolOnly(em_hist.pre_cons)

\* the same for lists in which no two non-boolean entries are neighbours
C23_AllBooleanWhenApart ==
    (em_hist.kind = "emulate"
        /\ \A k \in 1..(Len(em_hist.pre_cons) - 1) :
              IsBoolRef(em_hist.pre_cons[k]) \/ IsBoolRef(em_hist.pre_cons[k + 1]))
      => \A c \in Range(FilteredCons) : IsBoolRef(c)

NextEmul == EmulateOne \/ AdvanceInstr

SpecEmul == InitEmul /\ [][NextEmul]_vars

NextIso == EmulateOne \/ AdvanceInstr \/ Mutate

SpecIso == InitIso /\ [][NextIso]_vars

\* ========================================================================
\* Coverage tracker: count_instrs / init_coverage_bitmap / calculate_coverage
\* (eunomia/arch/wasm/emulator.py)
\* ========================================================================

FuncNames == {"main", "helper", "strlen"}

\* the functions with a library model (ControlInstructions.C_LIBRARY_FUNCS)
C_LIBRARY_FUNCS == {"strlen"}

\* the callee sets a caller may have in the call graph (the entry function
\* is called by none)
CalleeSets == SUBSET (FuncNames \ {"main"})

\* dict.get(key, default)
CallGraphGet(graph, caller) ==
    IF caller \in DOMAIN graph THEN graph[caller] ELSE {}

\* the worklist loop of count_instrs: the functions reachable from the queue
RECURSIVE ReachableFrom(_, _, _)
ReachableFrom(graph, queue, visited) ==
    IF queue = <<>> THEN visited
    ELSE LET caller == Head(queue)
             seen == visited \cup {caller}
             callees == {c \in CallGraphGet(graph, caller) : c \notin seen}
         IN ReachableFrom(graph, Tail(queue) \o SetToSeq(callees), seen)

\* count_instrs: the reachable functions the module defines, with their sizes
CountInstrs(graph, sizes, entry, elems) ==
    LET visited == ReachableFrom(graph, <<entry>> \o SetToSeq(elems), {})
    IN [f \in visited \cap DOMAIN sizes |-> sizes[f]]

RECURSIVE SumCounts(_, _)
SumCounts(f, S) ==
    IF S = {} THEN 0
    ELSE LET x == CHOOSE y \in S : TRUE
         IN f[x] + SumCounts(f, S \ {x})

\* a plausible slip: the length is taken for the number of true bits
CountAll(bits) == Len(bits)

\* bitmap.count(True)
CountTrue(bits) == Cardinality({i \in DOMAIN bits : bits[i]})

\* a plausible slip: the "not in" test is left out
InitCoverageBitmapAlways(bitmap, coverage, func_name) ==
    [bitmap |-> (func_name :> [i \in 1..concerned_funcs[func_name] |-> FALSE])
                    @@ bitmap,
     coverage |-> (func_name :> <<0, concerned_funcs[func_name]>>) @@ coverage]

\* init_coverage_bitmap(func_name)
InitCoverageBitmap(bitmap, coverage, func_name) ==
    IF func_name \notin DOMAIN bitmap
    THEN [bitmap |-> (func_name :> [i \in 1..concerned_funcs[func_name] |-> FALSE])
                        @@ bitmap,
          coverage |-> (func_name :> <<0, concerned_funcs[func_name]>>)
                        @@ coverage]
    ELSE [bitmap |-> bitmap, coverage |-> coverage]

\* the queue loop of the library branch: the callees looked up are always
\* those of func_name
RECURSIVE CLibVisited(_, _, _)
CLibVisited(func_name, queue, visited) ==
    IF queue = <<>> THEN visited
    ELSE LET ele == Head(queue)
             seen == visited \cup {ele}
             callees == {c \in CallGraphGet(call_graph, func_name) : c \notin seen}
         IN CLibVisited(func_name, Tail(queue) \o SetToSeq(callees), seen)

\* "for callee in visited": mark the callees in the order given; stops at the
\* first one the assertion rejects
RECURSIVE MarkAll(_, _, _)
MarkAll(order, bitmap, coverage) ==
    IF order = <<>> THEN [bitmap |-> bitmap, coverage |-> coverage, ok |-> TRUE]
    ELSE LET callee == Head(order)
         IN IF callee \notin DOMAIN concerned_funcs
            THEN [bitmap |-> bitmap, coverage |-> coverage, ok |-> FALSE]
            ELSE LET i == InitCoverageBitmap(bitmap, coverage, callee)
                     bits == [k \in DOMAIN i.bitmap[callee] |-> TRUE]
                     b2 == [i.bitmap EXCEPT ![callee] = bits]
                     c2 == [i.coverage EXCEPT ![callee][1] = CountTrue(bits)]
                 IN MarkAll(Tail(order), b2, c2)

\* the orders in which a set may be iterated
Orders(S) == {q \in [1..Cardinality(S) -> S] : Range(q) = S}

\* the sum of v[0] over instruction_coverage.values()
GlobalVisited(coverage) ==
    SumCounts([f \in DOMAIN coverage |-> coverage[f][1]], DOMAIN coverage)

\* the module's call graph, its functions and the entry are fixed by
\* count_instrs before exploration starts
InitCov ==
    \E graph \in [FuncNames -> CalleeSets] :
    \E defined \in {D \in SUBSET FuncNames : "main" \in D} :
    \E sizes \in [defined -> 1..MaxFuncSize] :
    \E elems \in {{}, {"helper"}} :
        LET concerned == CountInstrs(graph, sizes, "main", elems)
        IN /\ call_graph = graph
           /\ concerned_funcs = concerned
           /\ total_instructions = SumCounts(concerned, DOMAIN concerned)
           /\ instruction_coverage_bitmap = <<>>
           /\ instruction_coverage = <<>>
           /\ cov_logged = -1
           /\ cov_pc = "run"
           /\ CountInputsDropped
           /\ SplitIdle
           /\ EmulIdle
           /\ WasiIdle
           /\ GlobIdle
           /\ StrIdle

\* the report at the end of calculate_coverage, written when more than one
\* second has passed since the last one
WriteReport(coverage, gate) ==
    IF gate THEN GlobalVisited(coverage) ELSE cov_logged

\* calculate_coverage(instr, func_name)
CalculateCoverage ==
    /\ cov_pc = "run"
    /\ \E func_name \in FuncNames : \E gate \in BOOLEAN :
          IF func_name \notin DOMAIN concerned_funcs
          THEN /\ cov_pc' = "assert_failed"
               /\ UNCHANGED <<instruction_coverage_bitmap, instruction_coverage,
                              cov_logged>>
          ELSE LET i == InitCoverageBitmap(instruction_coverage_bitmap,
                                           instruction_coverage, func_name)
               IN IF func_name \in C_LIBRARY_FUNCS
                  THEN \E order \in Orders(CLibVisited(func_name, <<func_name>>, {})) :
                          LET m == MarkAll(order, i.bitmap, i.coverage)
                          IN /\ instruction_coverage_bitmap' = m.bitmap
                             /\ instruction_coverage' = m.coverage
                             /\ cov_pc' = IF m.ok THEN "run" ELSE "assert_failed"
                             /\ cov_logged' = IF m.ok
                                              THEN WriteReport(m.coverage, gate)
                                              ELSE cov_logged
                  ELSE \E nature_offset \in 0..(concerned_funcs[func_name] - 1) :
                          LET b2 == [i.bitmap EXCEPT
                                        ![func_name][nature_offset + 1] = TRUE]
                              c2 == [i.coverage EXCEPT
                                        ![func_name][1] = CountTrue(b2[func_name])]
                          IN /\ instruction_coverage_bitmap' = b2
                             /\ instruction_coverage' = c2
                             /\ cov_pc' = "run"
                             /\ cov_logged' = WriteReport(c2, gate)
    /\ UNCHANGED <<concerned_funcs, call_graph, total_instructions,
                   cfg_functions, ana_elems, cov_entry>>
    /\ UNCHANGED NotCov

\* C5: coverage monotonicity. Over any sequence of calculate_coverage calls
\* no bit of a function's bitmap goes from true to false (a bitmap, once
\* there, stays and keeps its length) and the global visited count, the sum
\* of the per-function visited counts, never decreases.
C5_CoverageMonotone ==
    [][/\ \A f \in DOMAIN instruction_coverage_bitmap :
             /\ f \in DOMAIN instruction_coverage_bitmap'
             /\ DOMAIN instruction_coverage_bitmap'[f]
                    = DOMAIN instruction_coverage_bitmap[f]
             /\ \A k \in DOMAIN instruction_coverage_bitmap[f] :
                    instruction_coverage_bitmap[f][k]
                        => instruction_coverage_bitmap'[f][k]
       /\ GlobalVisited(instruction_coverage)'
              >= GlobalVisited(instruction_coverage)]_vars

\* several calls have been made: a library function is marked in full and
\* another function is covered in part
C5_Witness ==
    /\ cov_pc = "run"
    /\ \E f \in DOMAIN instruction_coverage_bitmap \cap C_LIBRARY_FUNCS :
          \A k \in DOMAIN instruction_coverage_bitmap[f] :
              instruction_coverage_bitmap[f][k]
    /\ \E f \in DOMAIN instruction_coverage_bitmap \ C_LIBRARY_FUNCS :
          /\ \E k \in DOMAIN instruction_coverage_bitmap[f] :
                instruction_coverage_bitmap[f][k]
          /\ \E k \in DOMAIN instruction_coverage_bitmap[f] :
                ~instruction_coverage_bitmap[f][k]
    /\ GlobalVisited(instruction_coverage) >= 2

\* C25: after every calculate_coverage call, for every function f that has
\* a bitmap, the recorded visited count of f is the number of true bits of
\* its bitmap, the recorded size of f is the length of the bitmap and f's
\* instruction count, and the global visited count is at most
\* total_instructions.
C25_CoverageConsistent ==
    /\ \A f \in DOMAIN instruction_coverage_bitmap :
          /\ f \in DOMAIN instruction_coverage
          /\ f \in DOMAIN concerned_funcs
          /\ instruction_coverage[f][1]
                = Cardinality({k \in DOMAIN instruction_coverage_bitmap[f] :
                                  instruction_coverage_bitmap[f][k]})
          /\ instruction_coverage[f][2] = Len(instruction_coverage_bitmap[f])
          /\ instruction_coverage[f][2] = concerned_funcs[f]
    /\ SumCounts([f \in DOMAIN instruction_coverage |-> instruction_coverage[f][1]],
                 DOMAIN instruction_coverage) <= total_instructions

\* calls have covered every instruction of a program of three functions, one
\* of them a library function marked in full by a single call
C25_Witness ==
    /\ cov_pc = "run"
    /\ DOMAIN concerned_funcs = FuncNames
    /\ DOMAIN instruction_coverage_bitmap = FuncNames
    /\ concerned_funcs["strlen"] = 2
    /\ concerned_funcs["main"] = 2
    /\ instruction_coverage["main"][1] = 1
    /\ instruction_coverage["strlen"][1] = 2
    /\ instruction_coverage["helper"][1] = instruction_coverage["helper"][2]

NextCov == CalculateCoverage

SpecCov == InitCov /\ [][NextCov]_vars

\* a module in which every function is defined and any function may call any
\* other, the entry function included (recursion)
InitCovLib ==
    \E graph \in [FuncNames -> SUBSET FuncNames] :
        LET sizes == [f \in FuncNames |-> MaxFuncSize]
            concerned == CountInstrs(graph, sizes, "main", {})
        IN /\ call_graph = graph
           /\ concerned_funcs = concerned
           /\ total_instructions = SumCounts(concerned, DOMAIN concerned)
           /\ instruction_coverage_bitmap = <<>>
           /\ instruction_coverage = <<>>
           /\ cov_logged = -1
           /\ cov_pc = "run"
           /\ CountInputsDropped
           /\ SplitIdle
           /\ EmulIdle
           /\ WasiIdle
           /\ GlobIdle
           /\ StrIdle

\* the functions reachable from those of S through the call graph: the least
\* set that holds S and the callees of each of its members
RECURSIVE Closure(_, _)
Closure(graph, S) ==
    LET next == S \cup UNION {CallGraphGet(graph, f) : f \in S}
    IN IF next = S THEN S ELSE Closure(graph, next)

AllCovered(f) ==
    /\ f \in DOMAIN instruction_coverage_bitmap
    /\ \A k \in DOMAIN instruction_coverage_bitmap[f] :
          instruction_coverage_bitmap[f][k]

\* a call of the library function has been dispatched: only that call makes
\* the function's bitmap
LibraryCallDone(f) ==
    f \in C_LIBRARY_FUNCS /\ f \in DOMAIN instruction_coverage_bitmap

\* C19: after a call to a modeled C-library function has been dispatched with
\* coverage enabled, every bit of the coverage bitmap of that function and of
\* every function reachable from it through the call graph (its callees,
\* direct and indirect) is true.
C19_LibraryCallCoversReachable ==
    \A f \in FuncNames :
        LibraryCallDone(f) =>
            \A g \in Closure(call_graph, {f}) : AllCovered(g)

\* the same for the function and its direct callees only
C19_LibraryCallCoversDirect ==
    \A f \in FuncNames :
        LibraryCallDone(f) =>
            \A g \in {f} \cup CallGraphGet(call_graph, f) : AllCovered(g)

SpecCovLib == InitCovLib /\ [][NextCov]_vars

\* ---- count_instrs as a step of the constructor ----

\* the module, its table elements and the entry before count_instrs runs
InitCount ==
    \E graph \in [FuncNames -> CalleeSets] :
    \E defined \in {D \in SUBSET FuncNames : "main" \in D} :
    \E sizes \in [defined -> 1..MaxFuncSize] :
    \E elems \in {{}, {"helper"}} :
        /\ call_graph = graph
        /\ cfg_functions = sizes
        /\ ana_elems = elems
        /\ cov_entry = "main"
        /\ concerned_funcs = <<>>
        /\ total_instructions = 0
        /\ instruction_coverage_bitmap = <<>>
        /\ instruction_coverage = <<>>
        /\ cov_logged = -1
        /\ cov_pc = "init"
        /\ SplitIdle
        /\ EmulIdle
        /\ WasiIdle
        /\ GlobIdle
        /\ StrIdle

\* a plausible slip: the "not in visited" test is left out
QueueCalleesAll(graph, caller, visited) == CallGraphGet(graph, caller)

\* "for callee in callees: if callee not in visited: queue.put(callee)"
QueueCallees(graph, caller, visited) ==
    {callee \in CallGraphGet(graph, caller) : callee \notin visited}

\* the iterations the queue loop is followed for; a loop that has not ended
\* by then is taken not to end
QueueFuel == (Cardinality(FuncNames) + 1) ^ 3

\* "while not queue.empty()" of count_instrs, iteration by iteration
RECURSIVE QueueLoop(_, _, _, _)
QueueLoop(graph, queue, visited, fuel) ==
    IF queue = <<>> THEN [visited |-> visited, ended |-> TRUE]
    ELSE IF fuel = 0 THEN [visited |-> visited, ended |-> FALSE]
    ELSE LET caller == Head(queue)
             seen == visited \cup {caller}
         IN QueueLoop(graph,
                      Tail(queue) \o SetToSeq(QueueCallees(graph, caller, seen)),
                      seen, fuel - 1)

\* count_instrs
count_instrs ==
    /\ cov_pc = "init"
    /\ LET r == QueueLoop(call_graph, <<cov_entry>> \o SetToSeq(ana_elems), {},
                          QueueFuel)
           concerned == [f \in r.visited \cap DOMAIN cfg_functions |->
                            cfg_functions[f]]
       IN IF r.ended
          THEN /\ concerned_funcs' = concerned
               /\ total_instructions' =
                     total_instructions + SumCounts(concerned, DOMAIN concerned)
               /\ cov_pc' = "run"
          ELSE /\ cov_pc' = "looping"
               /\ UNCHANGED <<concerned_funcs, total_instructions>>
    /\ UNCHANGED <<call_graph, cfg_functions, ana_elems, cov_entry,
                   instruction_coverage_bitmap, instruction_coverage,
                   cov_logged>>
    /\ UNCHANGED NotCov

\* exploration begins: the coverage of the first instruction dispatched
FirstCoverage ==
    /\ instruction_coverage_bitmap = <<>>
    /\ CalculateCoverage

\* C20: count_instrs terminates on every call graph, cyclic ones included;
\* the functions it registers for coverage are exactly the functions of the
\* module reachable through the call graph from the entry function or from a
\* table-element function; the bitmap of a registered function is allocated
\* with one bit per instruction of that function, and total_instructions is
\* the sum of those sizes.
C20_CountInstrs ==
    /\ cov_pc # "looping"
    /\ cov_pc \in {"run", "assert_failed"} =>
          /\ DOMAIN concerned_funcs
                = Closure(call_graph, {cov_entry} \cup ana_elems)
                      \cap DOMAIN cfg_functions
          /\ \A f \in DOMAIN concerned_funcs :
                concerned_funcs[f] = cfg_functions[f]
          /\ \A f \in DOMAIN instruction_coverage_bitmap :
                /\ f \in DOMAIN concerned_funcs
                /\ Len(instruction_coverage_bitmap[f]) = cfg_functions[f]
          /\ total_instructions
                = SumCounts(cfg_functions, DOMAIN concerned_funcs)

\* a module in which helper and strlen call each other, helper is reached
\* as a table element only and strlen is not defined by the module; the
\* bitmap of helper is there
C20_Witness ==
    /\ cov_pc = "run"
    /\ "strlen" \in call_graph["helper"]
    /\ "helper" \in call_graph["strlen"]
    /\ "helper" \notin call_graph["main"]
    /\ ana_elems = {"helper"}
    /\ DOMAIN concerned_funcs = {"main", "helper"}
    /\ "helper" \in DOMAIN instruction_coverage_bitmap
    /\ Len(instruction_coverage_bitmap["helper"]) = MaxFuncSize
    /\ total_instructions = cfg_functions["main"] + MaxFuncSize

NextCount == count_instrs \/ FirstCoverage

SpecCount == InitCount /\ [][NextCount]_vars



\* ========================================================================
\* WASI host models: WASIImportFunction.emul
\* (eunomia/arch/wasm/lib/wasi.py)
\* ========================================================================

\* A value (a stack entry or one byte of memory) is a concrete number or a
\* symbolic term; Symb(name, j) is byte j of the bitvector called name, or
\* the bitvector itself when it is used as a whole.
Conc(n) == [k |-> "c", n |-> n, s |-> ""]
Symb(name, j) == [k |-> "s", n |-> j, s |-> name]
NoByte == [k |-> "none", n |-> 0, s |-> ""]

\* an element of state.args: a Python str or a z3 bitvector of size bits
StrArg(chars) == [kind |-> "str", chars |-> chars, name |-> "", size |-> 0]
BvArg(name, size) == [kind |-> "bv", chars |-> <<>>, name |-> name, size |-> size]

\* the characters of concrete arguments (code points)
ArgChars == {97, 104}

\* ---- memory and parameter helpers (lib/utils.py and utils.py are not part
\* ---- of the sources; design, sections 4.2 and 4.5)

\* the n little-endian bytes of a Python int
IntBytes(v, n) == [j \in 1..n |-> Conc((v \div (256 ^ (j - 1))) % 256)]

\* the bytes of a bitvector, least significant first
BvBytes(arg) == [j \in 1..(arg.size \div 8) |-> Symb(arg.name, j - 1)]

\* z3 Concat(hi, lo): hi becomes the most significant part
Concat(hi, lo) == lo \o hi

\* int.from_bytes(str.encode(string), "little")
RECURSIVE str_to_little_endian_int(_)
str_to_little_endian_int(chars) ==
    IF Len(chars) = 0 THEN 0
    ELSE chars[1] + 256 * str_to_little_endian_int(Tail(chars))

\* _storeN(state, addr, value, n): n bytes from addr on, superseding what
\* was stored there
StoreN(mem, addr, bytes, n) ==
    [a \in addr..(addr + n - 1) |-> bytes[a - addr + 1]] @@ mem

MemGet(mem, a) == IF a \in DOMAIN mem THEN mem[a] ELSE NoByte

\* _loadN(state, addr, 4) of concrete bytes, -1 when a byte is not concrete
Load32(mem, addr) ==
    IF \A j \in 0..3 : MemGet(mem, addr + j).k = "c"
    THEN MemGet(mem, addr).n + 256 * MemGet(mem, addr + 1).n
            + 65536 * MemGet(mem, addr + 2).n
            + 16777216 * MemGet(mem, addr + 3).n
    ELSE -1

\* _extract_params(param_str, state): pops the n parameters, the last one
\* (top of stack) first
ExtractParams(stack, n) ==
    [params |-> [j \in 1..n |-> stack[Len(stack) - j + 1]],
     stack |-> SubSeq(stack, 1, Len(stack) - n)]

\* ---- args_sizes_get

\* _iterate_sym_args(state.args[1:]): a constant when there is no argument
\* after the first, an If term otherwise
ArgcBytes(args) ==
    IF Len(args) <= 1 THEN IntBytes(Len(args), 4)
    ELSE [j \in 1..4 |-> Symb("argc_if", j - 1)]

NumArgBytes(arg) ==
    IF arg.kind = "str" THEN Len(arg.chars) + 1 ELSE arg.size \div 8 + 1

RECURSIVE ArgvLen(_)
ArgvLen(args) ==
    IF Len(args) = 0 THEN 0 ELSE NumArgBytes(args[1]) + ArgvLen(Tail(args))

\* the value of the term _iterate_sym_args builds, when the bitvector
\* arguments at the positions zeros are 0: "i == 0" is False for a str
RECURSIVE IterateSymArgs(_, _, _)
IterateSymArgs(args, first, zeros) ==
    IF first > Len(args) THEN Len(args)
    ELSE IF \A i \in first..Len(args) : args[i].kind = "bv" /\ i \in zeros
         THEN Len(args) - (Len(args) - first + 1)
         ELSE IterateSymArgs(args, first + 1, zeros)

\* a plausible slip: the two addresses are taken in the wrong order
ArgsSizesGetSwapped(mem, args, argc_addr, arg_buf_size_addr) ==
    StoreN(StoreN(mem, arg_buf_size_addr, ArgcBytes(args), 4),
           argc_addr, IntBytes(ArgvLen(args), 4), 4)

ArgsSizesGet(mem, args, argc_addr, arg_buf_size_addr) ==
    StoreN(StoreN(mem, argc_addr, ArgcBytes(args), 4),
           arg_buf_size_addr, IntBytes(ArgvLen(args), 4), 4)

\* ---- args_get

\* what is stored for one argument
ArgValue(arg) ==
    IF arg.kind = "str"
    THEN IntBytes(str_to_little_endian_int(arg.chars), Len(arg.chars) + 1)
    ELSE Concat(<<Conc(0)>>, BvBytes(arg))

RECURSIVE ArgsGetLoopNoNul(_, _, _, _, _)
ArgsGetLoopNoNul(mem, args, arg_index, next_arg_buf_addr, argv_addr) ==
    IF arg_index > Len(args) THEN mem
    ELSE LET arg == args[arg_index]
             num_arg_bytes == NumArgBytes(arg) - 1
             m1 == StoreN(mem, next_arg_buf_addr, ArgValue(arg), num_arg_bytes)
             m2 == StoreN(m1, argv_addr + 4 * (arg_index - 1),
                          IntBytes(next_arg_buf_addr, 4), 4)
         IN ArgsGetLoopNoNul(m2, args, arg_index + 1,
                             next_arg_buf_addr + num_arg_bytes, argv_addr)

\* "for arg_index in range(len(args))"
RECURSIVE ArgsGetLoop(_, _, _, _, _)
ArgsGetLoop(mem, args, arg_index, next_arg_buf_addr, argv_addr) ==
    IF arg_index > Len(args) THEN mem
    ELSE LET arg == args[arg_index]
             num_arg_bytes == NumArgBytes(arg)
             m1 == StoreN(mem, next_arg_buf_addr, ArgValue(arg), num_arg_bytes)
             m2 == StoreN(m1, argv_addr + 4 * (arg_index - 1),
                          IntBytes(next_arg_buf_addr, 4), 4)
         IN ArgsGetLoop(m2, args, arg_index + 1,
                        next_arg_buf_addr + num_arg_bytes, argv_addr)

RECURSIVE ArgsGetLoopPtrLate(_, _, _, _, _)
ArgsGetLoopPtrLate(mem, args, arg_index, next_arg_buf_addr, argv_addr) ==
    IF arg_index > Len(args) THEN mem
    ELSE LET arg == args[arg_index]
             num_arg_bytes == NumArgBytes(arg)
             m1 == StoreN(mem, next_arg_buf_addr, ArgValue(arg), num_arg_bytes)
             m2 == StoreN(m1, argv_addr + 4 * (arg_index - 1),
                          IntBytes(next_arg_buf_addr + num_arg_bytes, 4), 4)
         IN ArgsGetLoopPtrLate(m2, args, arg_index + 1,
                               next_arg_buf_addr + num_arg_bytes, argv_addr)

\* a plausible slip: the pointer is stored after next_arg_buf_addr is updated
ArgsGetPtrLate(mem, args, argv_addr, arg_buf_addr) ==
    ArgsGetLoopPtrLate(mem, args, 1, arg_buf_addr, argv_addr)

\* a plausible slip: the "+ 1" of num_arg_bytes is left out
ArgsGetNoNul(mem, args, argv_addr, arg_buf_addr) ==
    ArgsGetLoopNoNul(mem, args, 1, arg_buf_addr, argv_addr)

ArgsGet(mem, args, argv_addr, arg_buf_addr) ==
    ArgsGetLoop(mem, args, 1, arg_buf_addr, argv_addr)

\* ---- proc_exit

ProcExitCons(return_val) == [lhs |-> "proc_exit", op |-> "==", rhs |-> return_val]

\* a plausible slip: a result is pushed, as the other host models do
ProcExitPush(stack, constraints) ==
    LET p == ExtractParams(stack, 1)
    IN [stack |-> Append(p.stack, Conc(0)),
        constraints |-> Append(constraints, ProcExitCons(p.params[1]))]

ProcExit(stack, constraints) ==
    LET p == ExtractParams(stack, 1)
    IN [stack |-> p.stack,
        constraints |-> Append(constraints, ProcExitCons(p.params[1]))]

\* what the report of a finished state shows as Status
Status(constraints) ==
    LET exits == {i \in DOMAIN constraints : constraints[i].lhs = "proc_exit"}
    IN IF exits = {} THEN [label |-> "none", code |-> Conc(0)]
       ELSE [label |-> "Exit with status code",
             code |-> constraints[CHOOSE i \in exits : \A j \in exits : j <= i].rhs]

\* ---- the file table (WasmVMstate is not part of the sources; design,
\* ---- sections 3 and 4.5)

\* one record of state.file_sys; flag is the set of characters of the mode
\* string, kind tells what content is: a list (written by fd_write), bytes or
\* a bitvector (read by fd_read); a bitvector's bytes are kept least
\* significant first
File(name, status, flag, kind, content) ==
    [name |-> name, status |-> status, flag |-> flag, kind |-> kind,
     content |-> content]

\* stdin, stdout and stderr, open and empty
StdFiles ==
    (0 :> File("stdin", TRUE, {"r"}, "bytes", <<>>))
        @@ (1 :> File("stdout", TRUE, {"w"}, "list", <<>>))
        @@ (2 :> File("stderr", TRUE, {"w"}, "list", <<>>))

\* ---- the program around the host calls

\* the imports the program calls; clock_time_get has no branch in emul
HostCalls == {"args_sizes_get", "args_get", "proc_exit", "clock_time_get"}

ExitCodes == {Conc(0), Conc(1), Symb("ret", 0)}

ArgValues ==
    {StrArg(c) : c \in SeqsUpTo(ArgChars, MaxStrLen)}
        \cup {BvArg("sym_arg", 8 * n) : n \in 1..MaxStrLen}

\* the names of symbolic arguments, by position
SymArgNames == <<"sym_arg_0", "sym_arg_1", "sym_arg_2", "sym_arg_3">>

NameArgs(args) ==
    [i \in DOMAIN args |->
        IF args[i].kind = "bv"
        THEN BvArg(SymArgNames[i], args[i].size) ELSE args[i]]

\* where the program keeps argc, the buffer size, the pointer array and the
\* argument buffer: apart from each other
LayoutsFor(args) ==
    {[argc_addr |-> 0, arg_buf_size_addr |-> 4, argv_addr |-> 8,
      arg_buf_addr |-> 8 + 4 * Len(args)],
     [argc_addr |-> 1024, arg_buf_size_addr |-> 1028,
      argv_addr |-> 66000 + ArgvLen(args), arg_buf_addr |-> 66000]}

\* what the state holds on its stack and in its constraints beforehand
InitHoldings ==
    {[stack |-> <<>>, constraints |-> <<>>],
     [stack |-> <<Conc(7)>>,
      constraints |-> <<[lhs |-> "sym_arg_1", op |-> "!=", rhs |-> Conc(0)]>>]}

InitWasi ==
    \E args \in SeqsUpTo(ArgValues, MaxArgs) :
    \E layout \in LayoutsFor(args) :
    \E held \in InitHoldings :
        /\ wasi_args = NameArgs(args)
        /\ wasi_layout = layout
        /\ wasi_file_sys = StdFiles
        /\ wasi_stack = held.stack
        /\ wasi_memory = <<>>
        /\ wasi_constraints = held.constraints
        /\ wasi_call = "none"
        /\ wasi_pc = "run"
        /\ wasi_hist = [sizes_done |-> FALSE, last |-> "none"]
        /\ wasi_clock = 0
        /\ SplitIdle
        /\ EmulIdle
        /\ CovIdle
        /\ GlobIdle
        /\ StrIdle

\* the program pushes the parameters of a host call and calls it
CallImport ==
    /\ wasi_pc = "run"
    /\ \E name \in HostCalls :
          /\ wasi_call' = name
          /\ \/ /\ name = "args_sizes_get"
                /\ wasi_stack' = wasi_stack \o
                      <<Conc(wasi_layout.argc_addr),
                        Conc(wasi_layout.arg_buf_size_addr)>>
             \/ /\ name = "args_get"
                /\ wasi_stack' = wasi_stack \o
                      <<Conc(wasi_layout.argv_addr),
                        Conc(wasi_layout.arg_buf_addr)>>
             \/ /\ name = "proc_exit"
                /\ \E code \in ExitCodes : wasi_stack' = Append(wasi_stack, code)
             \/ /\ name = "clock_time_get"
                /\ wasi_stack' = wasi_stack \o <<Conc(0), Conc(1), Conc(16)>>
    /\ wasi_pc' = "call"
    /\ UNCHANGED <<wasi_memory, wasi_constraints, wasi_args, wasi_layout, wasi_file_sys,
                   wasi_hist>>
    /\ UNCHANGED wasi_clock
    /\ UNCHANGED NotWasi

\* emul, self.name == 'args_sizes_get'
EmulArgsSizesGet ==
    /\ wasi_pc = "call"
    /\ wasi_call = "args_sizes_get"
    /\ LET p == ExtractParams(wasi_stack, 2)
           arg_buf_size_addr == p.params[1].n
           argc_addr == p.params[2].n
       IN /\ wasi_memory' = ArgsSizesGet(wasi_memory, wasi_args, argc_addr,
                                         arg_buf_size_addr)
          /\ wasi_stack' = Append(p.stack, Conc(0))
    /\ wasi_pc' = "returned"
    /\ wasi_hist' = [sizes_done |-> TRUE, last |-> "args_sizes_get"]
    /\ UNCHANGED <<wasi_constraints, wasi_args, wasi_layout, wasi_file_sys, wasi_call>>
    /\ UNCHANGED wasi_clock
    /\ UNCHANGED NotWasi

\* emul, self.name == 'args_get'
EmulArgsGet ==
    /\ wasi_pc = "call"
    /\ wasi_call = "args_get"
    /\ LET p == ExtractParams(wasi_stack, 2)
           arg_buf_addr == p.params[1].n
           argv_addr == p.params[2].n
       IN /\ wasi_memory' = ArgsGet(wasi_memory, wasi_args, argv_addr,
                                    arg_buf_addr)
          /\ wasi_stack' = Append(p.stack, Conc(0))
    /\ wasi_pc' = "returned"
    /\ wasi_hist' = [wasi_hist EXCEPT !.last = "args_get"]
    /\ UNCHANGED <<wasi_constraints, wasi_args, wasi_layout, wasi_file_sys, wasi_call>>
    /\ UNCHANGED wasi_clock
    /\ UNCHANGED NotWasi

\* emul, self.name == 'proc_exit'; the state is then terminal
EmulProcExit ==
    /\ wasi_pc = "call"
    /\ wasi_call = "proc_exit"
    /\ LET e == ProcExit(wasi_stack, wasi_constraints)
       IN /\ wasi_stack' = e.stack
          /\ wasi_constraints' = e.constraints
    /\ wasi_pc' = "exited"
    /\ wasi_hist' = [wasi_hist EXCEPT !.last = "proc_exit"]
    /\ UNCHANGED <<wasi_memory, wasi_args, wasi_layout, wasi_file_sys, wasi_call>>
    /\ UNCHANGED wasi_clock
    /\ UNCHANGED NotWasi

\* emul, the final else: an import without a branch. The errors are logged
\* and exit() ends the run; the code after the if chain is not reached.
EmulUnknownImport ==
    /\ wasi_pc = "call"
    /\ wasi_call = "clock_time_get"
    /\ wasi_pc' = "aborted"
    /\ wasi_hist' = [wasi_hist EXCEPT !.last = "clock_time_get"]
    /\ UNCHANGED <<wasi_stack, wasi_memory, wasi_constraints, wasi_args,
                   wasi_layout, wasi_file_sys, wasi_call>>
    /\ UNCHANGED wasi_clock
    /\ UNCHANGED NotWasi

\* the program takes the result of the call off the stack and goes on
DropResult ==
    /\ wasi_pc = "returned"
    /\ wasi_stack' = SubSeq(wasi_stack, 1, Len(wasi_stack) - 1)
    /\ wasi_call' = "none"
    /\ wasi_pc' = "run"
    /\ UNCHANGED <<wasi_memory, wasi_constraints, wasi_args, wasi_layout, wasi_file_sys,
                   wasi_hist>>
    /\ UNCHANGED wasi_clock
    /\ UNCHANGED NotWasi

\* the bytes of one argument, in memory order
ArgBytes(arg) ==
    IF arg.kind = "str" THEN [j \in DOMAIN arg.chars |-> Conc(arg.chars[j])]
    ELSE BvBytes(arg)

C10_ArgsRoundTrip ==
    (wasi_pc = "returned" /\ wasi_hist.sizes_done /\ wasi_hist.last = "args_get") =>
        \A i \in DOMAIN wasi_args :
            LET ptr == Load32(wasi_memory, wasi_layout.argv_addr + 4 * (i - 1))
                bytes == ArgBytes(wasi_args[i])
            IN /\ ptr >= 0
               /\ \A j \in DOMAIN bytes :
                      MemGet(wasi_memory, ptr + j - 1) = bytes[j]
               /\ MemGet(wasi_memory, ptr + Len(bytes)) = Conc(0)

\* both calls were made for an argv that holds a concrete string and a
\* symbolic argument
C10_Witness ==
    /\ wasi_pc = "returned"
    /\ wasi_hist.sizes_done
    /\ wasi_hist.last = "args_get"
    /\ Len(wasi_args) = 2
    /\ wasi_args[1].kind = "str"
    /\ Len(wasi_args[1].chars) = 2
    /\ wasi_args[2].kind = "bv"

\* the positions of the bitvector arguments
BvIndexes(args) == {i \in DOMAIN args : args[i].kind = "bv"}

\* the value of the 4 bytes at addr when the bitvector arguments at zeros
\* are 0: a concrete number, or the value of the argc term
StoredArgc(mem, addr, args, zeros) ==
    IF Load32(mem, addr) >= 0 THEN Load32(mem, addr)
    ELSE IF \A j \in 0..3 : MemGet(mem, addr + j) = Symb("argc_if", j)
         THEN IterateSymArgs(args, 2, zeros)
         ELSE -1

\* the number of arguments up to the last one that is not a zero bitvector;
\* argv[0] always counts
CountedArgs(args, zeros) ==
    LET present == {i \in 2..Len(args) :
                       ~(args[i].kind = "bv" /\ i \in zeros)}
    IN IF present = {} THEN (IF Len(args) = 0 THEN 0 ELSE 1)
       ELSE CHOOSE i \in present : \A j \in present : j <= i

RECURSIVE SumLens(_)
SumLens(args) ==
    IF Len(args) = 0 THEN 0
    ELSE Len(ArgBytes(args[1])) + SumLens(Tail(args))

AtArgsSizesGet == wasi_pc = "call" /\ wasi_call = "args_sizes_get"

\* C11 as stated: args_sizes_get stores the number of elements of argv at
\* argc_addr, the sum of (byte length + 1) at arg_buf_size_addr and pushes
\* 0, whatever the symbolic arguments are.
C11_Original ==
    [][AtArgsSizesGet =>
          /\ \A zeros \in SUBSET BvIndexes(wasi_args) :
                StoredArgc(wasi_memory', wasi_layout.argc_addr, wasi_args, zeros)
                    = Len(wasi_args)
          /\ Load32(wasi_memory', wasi_layout.arg_buf_size_addr)
                 = SumLens(wasi_args) + Len(wasi_args)
          /\ wasi_stack' = Append(SubSeq(wasi_stack, 1, Len(wasi_stack) - 2),
                                  Conc(0))]_vars

\* C11 (amended): args_sizes_get stores at argc_addr a value that is the
\* number of arguments up to the last one that is not a zero bitvector
\* (|argv| when no symbolic argument is 0 at the end of argv), stores the
\* sum of (byte length + 1) at arg_buf_size_addr and pushes 0.
C11_ArgcUpToLastPresent ==
    [][AtArgsSizesGet =>
          /\ \A zeros \in SUBSET BvIndexes(wasi_args) :
                StoredArgc(wasi_memory', wasi_layout.argc_addr, wasi_args, zeros)
                    = CountedArgs(wasi_args, zeros)
          /\ Load32(wasi_memory', wasi_layout.arg_buf_size_addr)
                 = SumLens(wasi_args) + Len(wasi_args)
          /\ wasi_stack' = Append(SubSeq(wasi_stack, 1, Len(wasi_stack) - 2),
                                  Conc(0))]_vars

\* args_sizes_get has returned for an argv that ends with a symbolic argument
C11_Witness ==
    /\ wasi_pc = "returned"
    /\ wasi_hist.last = "args_sizes_get"
    /\ Len(wasi_args) = 2
    /\ wasi_args[2].kind = "bv"
    /\ wasi_stack[Len(wasi_stack)] = Conc(0)

AtArgsGet == wasi_pc = "call" /\ wasi_call = "args_get"

\* the pointer args_get leaves for argument i
ArgPtr(mem, i) == Load32(mem, wasi_layout.argv_addr + 4 * (i - 1))

\* the addresses argument i occupies: its bytes and the NUL
ArgRegion(mem, i) ==
    ArgPtr(mem, i)..(ArgPtr(mem, i) + Len(ArgBytes(wasi_args[i])))

\* the sum of (length + 1) of the arguments before i
RECURSIVE SizeBefore(_, _)
SizeBefore(args, i) ==
    IF i <= 1 THEN 0
    ELSE SizeBefore(args, i - 1) + Len(ArgBytes(args[i - 1])) + 1

\* C12: args_get lays the arguments out back to back. The pointer stored at
\* argv_addr + 4*i is arg_buf_addr plus the sum of (length + 1) of the
\* arguments before i; argument i occupies exactly length_i + 1 bytes from
\* there (all of them stored, nothing stored outside the regions and the
\* pointer array); no two regions overlap; and the regions hold as many
\* bytes as args_sizes_get reported.
C12_BackToBack ==
    [][AtArgsGet =>
          LET mem == wasi_memory'
              regions == UNION {ArgRegion(mem, i) : i \in DOMAIN wasi_args}
              ptrs == wasi_layout.argv_addr
                        ..(wasi_layout.argv_addr + 4 * Len(wasi_args) - 1)
          IN /\ \A i \in DOMAIN wasi_args :
                    /\ ArgPtr(mem, i)
                           = wasi_layout.arg_buf_addr + SizeBefore(wasi_args, i)
                    /\ ArgRegion(mem, i) \subseteq DOMAIN mem
             /\ \A i, j \in DOMAIN wasi_args :
                    i # j => ArgRegion(mem, i) \cap ArgRegion(mem, j) = {}
             /\ (DOMAIN mem) \ (DOMAIN wasi_memory) \subseteq regions \cup ptrs
             /\ wasi_hist.sizes_done =>
                    Cardinality(regions)
                        = Load32(mem, wasi_layout.arg_buf_size_addr)]_vars

\* args_get has returned, after args_sizes_get, for two arguments of
\* different kinds and lengths
C12_Witness ==
    /\ wasi_pc = "returned"
    /\ wasi_hist.last = "args_get"
    /\ wasi_hist.sizes_done
    /\ Len(wasi_args) = 2
    /\ Len(ArgBytes(wasi_args[1])) # Len(ArgBytes(wasi_args[2]))
    /\ wasi_args[1].kind # wasi_args[2].kind

\* C13: a call to an import with no model is recoverable. The host model
\* pushes one fresh symbol of the declared return type and the path goes on;
\* the run is not aborted.
C13_UnknownImportContinues ==
    [][(wasi_pc = "call" /\ wasi_call = "clock_time_get") =>
          /\ wasi_pc' = "returned"
          /\ Len(wasi_stack') >= 1
          /\ wasi_stack'[Len(wasi_stack')].k = "s"]_vars

NextWasi ==
    \/ CallImport
    \/ EmulArgsSizesGet
    \/ EmulArgsGet
    \/ EmulProcExit
    \/ EmulUnknownImport
    \/ DropResult

SpecWasi == InitWasi /\ [][NextWasi]_vars

\* ========================================================================
\* WASI host models on files: fd_write, fd_read, fd_prestat_get
\* (eunomia/arch/wasm/lib/wasi.py)
\* ========================================================================

\* where the program keeps the iov array, the buffers the iovs point to,
\* the word for the byte count and the prestat record
FdLayout == [iovs_addr |-> 0, buf_base |-> 64, count_addr |-> 200,
             prestat_addr |-> 240]

BufPtr(i) == FdLayout.buf_base + 8 * (i - 1)

\* byte j of the buffer of iov i, as the program filled it
DataByte(kind, i, j) ==
    IF kind = "concrete" THEN Conc(97 + 8 * (i - 1) + j)
    ELSE Symb("buf", 8 * (i - 1) + j)

\* the memory of the program: iov i is (BufPtr(i), lens[i]), the buffers hold
\* their data
RECURSIVE IovMemory(_, _, _)
IovMemory(lens, kind, i) ==
    IF i = 0 THEN <<>>
    ELSE LET m0 == IovMemory(lens, kind, i - 1)
             m1 == StoreN(m0, FdLayout.iovs_addr + 8 * (i - 1),
                          IntBytes(BufPtr(i), 4), 4)
             m2 == StoreN(m1, FdLayout.iovs_addr + 8 * (i - 1) + 4,
                          IntBytes(lens[i], 4), 4)
         IN StoreN(m2, BufPtr(i), [j \in 1..lens[i] |-> DataByte(kind, i, j - 1)],
                   lens[i])

\* what a descriptor holds to be read: bytes or a symbolic bitvector
ReadContents ==
    {[kind |-> "bytes", content |-> [k \in 1..n |-> Conc(48 + k)]] :
        n \in 0..MaxFileLen}
        \cup {[kind |-> "bv", content |-> [k \in 1..n |-> Symb("sym_stdin", k - 1)]] :
                n \in 1..MaxFileLen}

\* the file table: the standard descriptors and a descriptor that was closed
FilesWith(stdin, out) ==
    (0 :> File("stdin", TRUE, {"r"}, stdin.kind, stdin.content))
        @@ (1 :> File("stdout", TRUE, {"w"}, "list", out))
        @@ (2 :> File("stderr", TRUE, {"w"}, "list", <<>>))
        @@ (3 :> File("", FALSE, {}, "list", <<>>))

RECURSIVE SumSeq(_)
SumSeq(q) == IF Len(q) = 0 THEN 0 ELSE q[1] + SumSeq(Tail(q))

InitFd ==
    \E program \in {"writer", "reader", "prestat"} :
    \E lens \in SeqsUpTo(0..MaxIovLen, MaxIovs) :
    \E kind \in {"concrete", "symbolic"} :
    \E stdin \in ReadContents :
    \E out \in {<<>>, <<Conc(104)>>} :
        /\ program = "writer" => stdin.content = <<>>
        /\ program = "reader" => kind = "concrete" /\ out = <<>>
        /\ program = "prestat" =>
              lens = <<>> /\ kind = "concrete" /\ out = <<>>
                  /\ stdin.content = <<>>
        /\ wasi_layout = [program |-> program, lens |-> lens, data |-> kind]
        /\ wasi_memory =
              IF program = "prestat"
              THEN StoreN(<<>>, FdLayout.prestat_addr, [j \in 1..8 |-> Conc(255)], 8)
              ELSE IovMemory(lens, kind, Len(lens))
        /\ wasi_file_sys = FilesWith(stdin, out)
        /\ wasi_stack = <<>>
        /\ wasi_constraints = <<>>
        /\ wasi_args = <<>>
        /\ wasi_call = "none"
        /\ wasi_pc = "run"
        /\ wasi_hist = [sizes_done |-> FALSE, last |-> "none", fd |-> -1,
                        initial |-> stdin.content, delivered |-> <<>>]
        /\ wasi_clock = 0
        /\ SplitIdle
        /\ EmulIdle
        /\ CovIdle
        /\ GlobIdle
        /\ StrIdle

\* the descriptors a program passes: open ones, a closed one and one that
\* is not in the table
FdValues == {0, 1, 2, 3, 9}

\* a program whose history counts its host calls makes at most MaxCalls
CallsLeft(hist) == "calls" \in DOMAIN hist => hist.calls < MaxCalls

Called(hist) ==
    IF "calls" \in DOMAIN hist THEN [hist EXCEPT !.calls = @ + 1] ELSE hist

\* the program pushes fd, iovs_addr, num_iovs and the address of the count
\* and calls fd_write; it stops writing when the output has grown long
CallFdWrite ==
    /\ wasi_pc = "run"
    /\ wasi_layout.program \in {"writer", "closer"}
    /\ CallsLeft(wasi_hist)
    /\ \E fd \in FdValues :
          /\ fd \in {1, 2} =>
                Len(wasi_file_sys[fd].content) + SumSeq(wasi_layout.lens)
                    <= MaxContent
          /\ wasi_stack' = wasi_stack \o
                <<Conc(fd), Conc(FdLayout.iovs_addr),
                  Conc(Len(wasi_layout.lens)), Conc(FdLayout.count_addr)>>
    /\ wasi_call' = "fd_write"
    /\ wasi_pc' = "call"
    /\ wasi_hist' = Called(wasi_hist)
    /\ UNCHANGED <<wasi_memory, wasi_constraints, wasi_args, wasi_layout,
                   wasi_file_sys>>
    /\ UNCHANGED wasi_clock
    /\ UNCHANGED NotWasi

\* "for i in range(num_iovs)" of fd_write: the bytes of each iov are loaded
\* one by one and added to the content
RECURSIVE FdWriteLoop(_, _, _, _, _, _)
FdWriteLoop(mem, content, iovs_addr, i, num_iovs, bytes_written_cnt) ==
    IF i >= num_iovs
    THEN [content |-> content, bytes_written_cnt |-> bytes_written_cnt]
    ELSE LET data_ptr == Load32(mem, iovs_addr + 8 * i)
             data_len == Load32(mem, iovs_addr + (8 * i + 4))
             out_str == [j \in 1..data_len |-> MemGet(mem, data_ptr + j - 1)]
         IN FdWriteLoop(mem, content \o out_str, iovs_addr, i + 1, num_iovs,
                        bytes_written_cnt + data_len)

\* the assertions at the start of fd_write
FdWriteAllowed(file_sys, fd) ==
    /\ fd \in DOMAIN file_sys
    /\ file_sys[fd].status
    /\ "w" \in file_sys[fd].flag
    /\ file_sys[fd].kind = "list"

\* a plausible slip: "=" in place of "+=" on the content
FdWriteReplace(mem, content, iovs_addr, num_iovs) ==
    FdWriteLoop(mem, <<>>, iovs_addr, 0, num_iovs, 0)

FdWrite(mem, content, iovs_addr, num_iovs) ==
    FdWriteLoop(mem, content, iovs_addr, 0, num_iovs, 0)

\* emul, self.name == 'fd_write'
EmulFdWrite ==
    /\ wasi_pc = "call"
    /\ wasi_call = "fd_write"
    /\ LET p == ExtractParams(wasi_stack, 4)
           num_bytes_written_addr == p.params[1].n
           num_iovs == p.params[2].n
           iovs_addr == p.params[3].n
           fd == p.params[4].n
       IN IF ~FdWriteAllowed(wasi_file_sys, fd)
          THEN /\ wasi_stack' = p.stack
               /\ wasi_pc' = "aborted"
               /\ UNCHANGED <<wasi_memory, wasi_file_sys>>
          ELSE LET w == FdWrite(wasi_memory, wasi_file_sys[fd].content,
                                iovs_addr, num_iovs)
               IN /\ wasi_file_sys' =
                        [wasi_file_sys EXCEPT ![fd].content = w.content]
                  /\ wasi_memory' = StoreN(wasi_memory, num_bytes_written_addr,
                                           IntBytes(w.bytes_written_cnt, 4), 4)
                  /\ wasi_stack' = Append(p.stack, Conc(0))
                  /\ wasi_pc' = "returned"
    /\ wasi_hist' = [wasi_hist EXCEPT !.last = "fd_write",
                                      !.fd = wasi_stack[Len(wasi_stack) - 3].n]
    /\ UNCHANGED <<wasi_constraints, wasi_args, wasi_layout, wasi_call>>
    /\ UNCHANGED wasi_clock
    /\ UNCHANGED NotWasi

\* what the report of a finished state shows as Output: the contents of
\* descriptors 1 and 2
Output(file_sys) ==
    <<[fd |-> 1, output |-> file_sys[1].content],
      [fd |-> 2, output |-> file_sys[2].content]>>

\* the bytes the program put into the buffers of its iovs, in iov order
RECURSIVE IovData(_, _, _)
IovData(lens, kind, i) ==
    IF i = 0 THEN <<>>
    ELSE IovData(lens, kind, i - 1)
            \o [j \in 1..lens[i] |-> DataByte(kind, i, j - 1)]

AtFdWrite == wasi_pc = "call" /\ wasi_call = "fd_write"

\* C14: fd_write on an open, writable descriptor appends exactly the bytes of
\* the iov buffers, in iov order and byte order, after the content the
\* descriptor held (which stays as a prefix), leaves the other descriptors
\* alone, stores the sum of the iov lengths at the written-count address and
\* pushes 0; the content of fd 1 is what the report shows as stdout.
C14_FdWriteAppends ==
    [][(AtFdWrite
          /\ FdWriteAllowed(wasi_file_sys, wasi_stack[Len(wasi_stack) - 3].n)) =>
          LET fd == wasi_stack[Len(wasi_stack) - 3].n
              data == IovData(wasi_layout.lens, wasi_layout.data,
                              Len(wasi_layout.lens))
          IN /\ wasi_file_sys'[fd].content = wasi_file_sys[fd].content \o data
             /\ \A other \in DOMAIN wasi_file_sys \ {fd} :
                    wasi_file_sys'[other] = wasi_file_sys[other]
             /\ Load32(wasi_memory', FdLayout.count_addr)
                    = SumSeq(wasi_layout.lens)
             /\ wasi_stack' = Append(SubSeq(wasi_stack, 1, Len(wasi_stack) - 4),
                                     Conc(0))
             /\ wasi_pc' = "returned"
             /\ fd = 1 => Output(wasi_file_sys')[1].output
                              = wasi_file_sys[1].content \o data]_vars

\* a second fd_write of two iovs has added to what fd 1 held
C14_Witness ==
    /\ wasi_pc = "returned"
    /\ wasi_hist.last = "fd_write"
    /\ Len(wasi_layout.lens) = 2
    /\ wasi_layout.lens[1] >= 1
    /\ wasi_layout.lens[2] >= 1
    /\ Len(wasi_file_sys[1].content) > SumSeq(wasi_layout.lens)
    /\ wasi_stack = <<Conc(0)>>

\* the program pushes fd, iovs_addr, num_iovs and the address of the count
\* and calls fd_read
CallFdRead ==
    /\ wasi_pc = "run"
    /\ wasi_layout.program \in {"reader", "closer"}
    /\ CallsLeft(wasi_hist)
    /\ \E fd \in FdValues :
          wasi_stack' = wasi_stack \o
              <<Conc(fd), Conc(FdLayout.iovs_addr),
                Conc(Len(wasi_layout.lens)), Conc(FdLayout.count_addr)>>
    /\ wasi_call' = "fd_read"
    /\ wasi_pc' = "call"
    /\ wasi_hist' = Called(wasi_hist)
    /\ UNCHANGED <<wasi_memory, wasi_constraints, wasi_args, wasi_layout,
                   wasi_file_sys>>
    /\ UNCHANGED wasi_clock
    /\ UNCHANGED NotWasi

\* the content of a descriptor as fd_read sees it: bytes, or a bitvector whose
\* bytes are listed from the least significant one; the empty list of kind
\* "bv" is the one-bit vector 'dummy' that stands for a drained bitvector
IsBytes(file) == file.kind = "bytes"

IsBv(file) == file.kind = "bv"

BvSize(content) == IF Len(content) = 0 THEN 1 ELSE 8 * Len(content)

\* "for j in range(min(stdin_length, buffer_len))" of fd_read; raised is set
\* where Extract is asked for bits the vector does not have
RECURSIVE FdReadChars(_, _, _, _, _, _, _, _)
FdReadChars(mem, kind, content, buffer_ptr, j, n, stdin_length, char_read_cnt) ==
    IF j >= n
    THEN [mem |-> mem, content |-> content, char_read_cnt |-> char_read_cnt,
          raised |-> FALSE]
    ELSE IF kind = "bytes"
    THEN FdReadChars(StoreN(mem, buffer_ptr + j, <<content[1]>>, 1), kind,
                     Tail(content), buffer_ptr, j + 1, n, stdin_length,
                     char_read_cnt + 1)
    ELSE IF BvSize(content) < 8
    THEN [mem |-> mem, content |-> content, char_read_cnt |-> char_read_cnt,
          raised |-> TRUE]
    ELSE IF (stdin_length - char_read_cnt) = 1
    THEN FdReadChars(StoreN(mem, buffer_ptr + j, <<content[1]>>, 1), kind,
                     <<>>, buffer_ptr, j + 1, n, stdin_length,
                     char_read_cnt + 1)
    ELSE IF BvSize(content) - 1 < 8
    THEN [mem |-> mem, content |-> content, char_read_cnt |-> char_read_cnt,
          raised |-> TRUE]
    ELSE FdReadChars(StoreN(mem, buffer_ptr + j, <<content[1]>>, 1), kind,
                     Tail(content), buffer_ptr, j + 1, n, stdin_length,
                     char_read_cnt + 1)

Min(a, b) == IF a <= b THEN a ELSE b

\* "for i in range(num_iovs)" of fd_read
RECURSIVE FdReadLoop(_, _, _, _, _, _, _)
FdReadLoop(mem, kind, content, iovs_addr, i, num_iovs, char_read_cnt) ==
    IF i >= num_iovs
    THEN [mem |-> mem, content |-> content, char_read_cnt |-> char_read_cnt,
          raised |-> FALSE]
    ELSE LET buffer_ptr == Load32(mem, iovs_addr + 8 * i)
             buffer_len == Load32(mem, iovs_addr + (8 * i + 4))
             stdin_length == IF kind = "bytes" THEN Len(content)
                             ELSE BvSize(content) \div 8
             r == FdReadChars(mem, kind, content, buffer_ptr, 0,
                              Min(stdin_length, buffer_len), stdin_length,
                              char_read_cnt)
         IN IF r.raised THEN r
            ELSE IF Len(r.content) > 0
            THEN FdReadLoop(r.mem, kind, r.content, iovs_addr, i + 1, num_iovs,
                            r.char_read_cnt)
            ELSE r

\* a plausible slip: the bytes handed out are not taken off the content
FdReadKeepsContent(mem, file, iovs_addr, num_iovs) ==
    IF Len(file.content) = 0
    THEN [mem |-> mem, content |-> file.content, char_read_cnt |-> 0,
          raised |-> FALSE]
    ELSE [FdReadLoop(mem, file.kind, file.content, iovs_addr, 0, num_iovs, 0)
            EXCEPT !.content = file.content]

\* fd_read after its checks of the descriptor
FdRead(mem, file, iovs_addr, num_iovs) ==
    IF Len(file.content) = 0
    THEN [mem |-> mem, content |-> file.content, char_read_cnt |-> 0,
          raised |-> FALSE]
    ELSE FdReadLoop(mem, file.kind, file.content, iovs_addr, 0, num_iovs, 0)

\* what the program finds after a call that returned: the count at the
\* read-count address, and that many bytes in the buffers of its iovs, taken
\* in iov order
RECURSIVE BufferBytes(_, _, _)
BufferBytes(mem, lens, i) ==
    IF i = 0 THEN <<>>
    ELSE BufferBytes(mem, lens, i - 1)
            \o [j \in 1..lens[i] |-> MemGet(mem, BufPtr(i) + j - 1)]

BytesDelivered(mem, lens) ==
    SubSeq(BufferBytes(mem, lens, Len(lens)), 1, Load32(mem, FdLayout.count_addr))

\* emul, self.name == 'fd_read'
EmulFdRead ==
    /\ wasi_pc = "call"
    /\ wasi_call = "fd_read"
    /\ LET p == ExtractParams(wasi_stack, 4)
           num_bytes_read_addr == p.params[1].n
           num_iovs == p.params[2].n
           iovs_addr == p.params[3].n
           fd == p.params[4].n
       IN /\ wasi_stack' = IF fd \in DOMAIN wasi_file_sys
                               /\ wasi_file_sys[fd].status
                               /\ (IsBytes(wasi_file_sys[fd])
                                     \/ IsBv(wasi_file_sys[fd]))
                               /\ ~FdRead(wasi_memory, wasi_file_sys[fd],
                                          iovs_addr, num_iovs).raised
                           THEN Append(p.stack, Conc(0))
                           ELSE p.stack
          /\ IF fd \notin DOMAIN wasi_file_sys
             THEN /\ wasi_pc' = "exited"
                  /\ UNCHANGED <<wasi_memory, wasi_file_sys>>
             ELSE IF ~wasi_file_sys[fd].status
                       \/ ~(IsBytes(wasi_file_sys[fd]) \/ IsBv(wasi_file_sys[fd]))
             THEN /\ wasi_pc' = "aborted"
                  /\ UNCHANGED <<wasi_memory, wasi_file_sys>>
             ELSE LET r == FdRead(wasi_memory, wasi_file_sys[fd], iovs_addr,
                                  num_iovs)
                  IN /\ wasi_file_sys' =
                           [wasi_file_sys EXCEPT ![fd].content = r.content]
                     /\ wasi_memory' =
                           IF r.raised THEN r.mem
                           ELSE StoreN(r.mem, num_bytes_read_addr,
                                       IntBytes(r.char_read_cnt, 4), 4)
                     /\ wasi_pc' = IF r.raised THEN "aborted" ELSE "returned"
    /\ wasi_hist' =
          [wasi_hist EXCEPT
              !.last = "fd_read",
              !.fd = wasi_stack[Len(wasi_stack) - 3].n,
              !.delivered =
                  IF wasi_pc' = "returned"
                  THEN @ \o BytesDelivered(wasi_memory', wasi_layout.lens)
                  ELSE @]
    /\ UNCHANGED <<wasi_constraints, wasi_args, wasi_layout, wasi_call>>
    /\ UNCHANGED wasi_clock
    /\ UNCHANGED NotWasi

AtFdRead == wasi_pc = "call" /\ wasi_call = "fd_read"

\* the byte that lands at position q (from 0) of buffer i when the first k
\* content bytes fill the buffers in turn
RECURSIVE CapacityBefore(_, _)
CapacityBefore(lens, i) ==
    IF i <= 1 THEN 0 ELSE CapacityBefore(lens, i - 1) + lens[i - 1]

\* C15: fd_read on an open descriptor whose content has L bytes (concrete
\* bytes or a symbolic bitvector) and iovs of capacities c1..cn copies the
\* first min(L, c1+...+cn) content bytes, in order, into the buffers, filling
\* each buffer in turn, removes exactly those bytes from the front of the
\* content, stores that count at the read-count address and pushes 0.
C15_FdReadCopies ==
    [][(AtFdRead
          /\ wasi_stack[Len(wasi_stack) - 3].n \in DOMAIN wasi_file_sys
          /\ wasi_file_sys[wasi_stack[Len(wasi_stack) - 3].n].status
          /\ (IsBytes(wasi_file_sys[wasi_stack[Len(wasi_stack) - 3].n])
                \/ IsBv(wasi_file_sys[wasi_stack[Len(wasi_stack) - 3].n]))) =>
          LET fd == wasi_stack[Len(wasi_stack) - 3].n
              content == wasi_file_sys[fd].content
              lens == wasi_layout.lens
              k == Min(Len(content), SumSeq(lens))
          IN /\ wasi_pc' = "returned"
             /\ wasi_file_sys'[fd].content = SubSeq(content, k + 1, Len(content))
             /\ \A i \in 1..Len(lens) : \A q \in 0..(lens[i] - 1) :
                    CapacityBefore(lens, i) + q < k =>
                        MemGet(wasi_memory', BufPtr(i) + q)
                            = content[CapacityBefore(lens, i) + q + 1]
             /\ Load32(wasi_memory', FdLayout.count_addr) = k
             /\ wasi_stack' = Append(SubSeq(wasi_stack, 1, Len(wasi_stack) - 4),
                                     Conc(0))]_vars

\* the same for content that is concrete bytes, where the code does all of it
C15_BytesReadCopies ==
    [][(AtFdRead
          /\ wasi_stack[Len(wasi_stack) - 3].n \in DOMAIN wasi_file_sys
          /\ wasi_file_sys[wasi_stack[Len(wasi_stack) - 3].n].status
          /\ IsBytes(wasi_file_sys[wasi_stack[Len(wasi_stack) - 3].n])) =>
          LET fd == wasi_stack[Len(wasi_stack) - 3].n
              content == wasi_file_sys[fd].content
              lens == wasi_layout.lens
              k == Min(Len(content), SumSeq(lens))
          IN /\ wasi_pc' = "returned"
             /\ wasi_file_sys'[fd].content = SubSeq(content, k + 1, Len(content))
             /\ \A i \in 1..Len(lens) : \A q \in 0..(lens[i] - 1) :
                    CapacityBefore(lens, i) + q < k =>
                        MemGet(wasi_memory', BufPtr(i) + q)
                            = content[CapacityBefore(lens, i) + q + 1]
             /\ Load32(wasi_memory', FdLayout.count_addr) = k
             /\ wasi_stack' = Append(SubSeq(wasi_stack, 1, Len(wasi_stack) - 4),
                                     Conc(0))]_vars


\* C26: over any sequence of fd_read calls on one descriptor, the bytes
\* delivered, concatenated in call order, form a prefix of the descriptor's
\* initial content (none is delivered twice, skipped or reordered), and once
\* all content has been delivered every later fd_read reports 0 bytes read,
\* writes no buffer and pushes 0; for concrete and for symbolic content.
C26_ReadsDeliverPrefix ==
    [][/\ IsPrefix(wasi_hist'.delivered, wasi_hist'.initial)
       /\ (AtFdRead
             /\ wasi_pc' # "call"
             /\ wasi_stack[Len(wasi_stack) - 3].n = 0
             /\ wasi_hist.delivered = wasi_hist.initial) =>
             /\ wasi_pc' = "returned"
             /\ Load32(wasi_memory', FdLayout.count_addr) = 0
             /\ \A a \in DOMAIN wasi_memory \cup DOMAIN wasi_memory' :
                   a \notin FdLayout.count_addr..(FdLayout.count_addr + 3) =>
                       MemGet(wasi_memory', a) = MemGet(wasi_memory, a)
             /\ wasi_stack' = Append(SubSeq(wasi_stack, 1, Len(wasi_stack) - 4),
                                     Conc(0))
             /\ wasi_hist'.delivered = wasi_hist.delivered]_vars

\* three symbolic bytes were handed out over several calls, and a call after
\* that has reported 0 bytes
C26_Witness ==
    /\ wasi_pc = "returned"
    /\ wasi_hist.last = "fd_read"
    /\ wasi_file_sys[0].kind = "bv"
    /\ Len(wasi_hist.initial) = 3
    /\ wasi_hist.delivered = wasi_hist.initial
    /\ Load32(wasi_memory, FdLayout.count_addr) = 0
    /\ wasi_stack = <<Conc(0)>>

\* concrete content of three bytes, two iovs: the same, with both buffers used
C26_WitnessBytes ==
    /\ wasi_pc = "returned"
    /\ wasi_hist.last = "fd_read"
    /\ wasi_file_sys[0].kind = "bytes"
    /\ Len(wasi_layout.lens) = 2
    /\ Len(wasi_hist.initial) = 3
    /\ wasi_hist.delivered = wasi_hist.initial
    /\ Load32(wasi_memory, FdLayout.count_addr) = 0

\* the descriptors wasi-libc asks about when it looks for preopened
\* directories: it starts at 3 and goes up until the answer is not 0
PrestatFds == 0..7

\* the program pushes fd and the address of the prestat record and calls
\* fd_prestat_get
CallFdPrestatGet ==
    /\ wasi_pc = "run"
    /\ wasi_layout.program = "prestat"
    /\ \E fd \in PrestatFds :
          wasi_stack' = wasi_stack \o <<Conc(fd), Conc(FdLayout.prestat_addr)>>
    /\ wasi_call' = "fd_prestat_get"
    /\ wasi_pc' = "call"
    /\ UNCHANGED <<wasi_memory, wasi_constraints, wasi_args, wasi_layout,
                   wasi_file_sys, wasi_hist>>
    /\ UNCHANGED wasi_clock
    /\ UNCHANGED NotWasi

\* a plausible slip: the bound one too low, so that fd 4 is refused
FdPrestatGetFrom4(mem, prestat_addr, fd) ==
    IF fd >= 4
    THEN [mem |-> mem, ret |-> 8]
    ELSE [mem |-> StoreN(StoreN(mem, prestat_addr, IntBytes(0, 4), 4),
                         prestat_addr + 4, IntBytes(5, 4), 4),
          ret |-> 0]

\* fd_prestat_get after its parameters are taken: the memory it leaves and
\* the value it pushes
FdPrestatGet(mem, prestat_addr, fd) ==
    IF fd >= 5
    THEN [mem |-> mem, ret |-> 8]
    ELSE [mem |-> StoreN(StoreN(mem, prestat_addr, IntBytes(0, 4), 4),
                         prestat_addr + 4, IntBytes(5, 4), 4),
          ret |-> 0]

\* emul, self.name == 'fd_prestat_get'
EmulFdPrestatGet ==
    /\ wasi_pc = "call"
    /\ wasi_call = "fd_prestat_get"
    /\ LET p == ExtractParams(wasi_stack, 2)
           prestat_addr == p.params[1].n
           fd == p.params[2].n
           r == FdPrestatGet(wasi_memory, prestat_addr, fd)
       IN /\ wasi_memory' = r.mem
          /\ wasi_stack' = Append(p.stack, Conc(r.ret))
          /\ wasi_hist' = [wasi_hist EXCEPT !.last = "fd_prestat_get", !.fd = fd]
    /\ wasi_pc' = "returned"
    /\ UNCHANGED <<wasi_constraints, wasi_args, wasi_layout, wasi_file_sys,
                   wasi_call>>
    /\ UNCHANGED wasi_clock
    /\ UNCHANGED NotWasi

AtFdPrestatGet == wasi_pc = "call" /\ wasi_call = "fd_prestat_get"

\* C18: fd_prestat_get on a descriptor of 5 or more pushes 8 and writes
\* nothing; on descriptors 3 and 4 it writes a prestat record (type 0 in the
\* 4 bytes at prestat_addr, name length 5 in the 4 bytes at prestat_addr + 4),
\* leaves the rest of memory alone and pushes 0.
C18_FdPrestatGet ==
    [][AtFdPrestatGet =>
          LET fd == wasi_stack[Len(wasi_stack) - 1].n
              prestat_addr == wasi_stack[Len(wasi_stack)].n
              rest == SubSeq(wasi_stack, 1, Len(wasi_stack) - 2)
          IN /\ fd >= 5 =>
                  /\ wasi_stack' = Append(rest, Conc(8))
                  /\ wasi_memory' = wasi_memory
             /\ fd \in {3, 4} =>
                  /\ wasi_stack' = Append(rest, Conc(0))
                  /\ Load32(wasi_memory', prestat_addr) = 0
                  /\ Load32(wasi_memory', prestat_addr + 4) = 5
                  /\ \A a \in DOMAIN wasi_memory \cup DOMAIN wasi_memory' :
                        a \notin prestat_addr..(prestat_addr + 7) =>
                            MemGet(wasi_memory', a) = MemGet(wasi_memory, a)
             /\ wasi_file_sys' = wasi_file_sys]_vars

\* fd 4 was asked about: the record is there and 0 is on the stack
C18_Witness ==
    /\ wasi_pc = "returned"
    /\ wasi_hist.last = "fd_prestat_get"
    /\ wasi_hist.fd = 4
    /\ wasi_stack = <<Conc(0)>>
    /\ Load32(wasi_memory, FdLayout.prestat_addr) = 0
    /\ Load32(wasi_memory, FdLayout.prestat_addr + 4) = 5


NextFd ==
    \/ CallFdWrite
    \/ EmulFdWrite
    \/ CallFdRead
    \/ EmulFdRead
    \/ CallFdPrestatGet
    \/ EmulFdPrestatGet
    \/ DropResult

SpecFd == InitFd /\ [][NextFd]_vars

\* ========================================================================
\* C library helpers: C_extract_string_by_start_pointer
\* (octopus/arch/wasm/helper_c.py)
\* ========================================================================

\* the byte the module's data holds at address a: NUL where the mask says
\* so, else a letter that tells the address
ByteAt(a, nul) == IF nul THEN 0 ELSE 97 + a

\* one entry of the dict: the key (lo, hi) with hi = offset + size, and the
\* bytes
Section(lo, mask) ==
    [lo |-> lo, hi |-> lo + Len(mask),
     data |-> [j \in 1..Len(mask) |-> ByteAt(lo + j - 1, mask[j])]]

\* the entries laid out one behind the other from address 8, with gaps[i]
\* unused bytes before entry i
RECURSIVE LayOut(_, _, _)
LayOut(masks, gaps, i) ==
    IF i = 0 THEN <<>>
    ELSE LET before == LayOut(masks, gaps, i - 1)
             lo == (IF i = 1 THEN 8 ELSE before[i - 1].hi) + gaps[i]
         IN Append(before, Section(lo, masks[i]))

Reversed(q) == [i \in 1..Len(q) |-> q[Len(q) + 1 - i]]

\* the data sections of a module (disjoint intervals), in the order or in the
\* reverse of the order of their addresses, and an address
InitStr ==
    \E n \in 1..MaxSections :
    \E masks \in [1..n -> {m \in SeqsUpTo(BOOLEAN, MaxDataLen) : Len(m) >= 1}] :
    \E gaps \in [1..n -> {0, 1}] :
    \E rev \in BOOLEAN :
    \E p \in 7..(8 + n * (MaxDataLen + 1)) :
        /\ data_section = IF rev THEN Reversed(LayOut(masks, gaps, n))
                          ELSE LayOut(masks, gaps, n)
        /\ start_pointer = p
        /\ str_result = <<>>
        /\ str_pc = "call"
        /\ SplitIdle
        /\ EmulIdle
        /\ CovIdle
        /\ WasiIdle
        /\ GlobIdle

\* "for k, v in data_section.items(): if k[0] <= start_pointer <= k[1]: ...
\* break": the position of the first entry the test accepts, 0 when the loop
\* ends without one
FirstMatch(sections, pointer) ==
    LET hits == {i \in DOMAIN sections :
                    sections[i].lo <= pointer /\ pointer <= sections[i].hi}
    IN IF hits = {} THEN 0 ELSE CHOOSE i \in hits : \A h \in hits : i <= h

\* bytes.find(b'\x00'): the index (from 0) of the first NUL, -1 without one
Find(bytes) ==
    LET hits == {j \in DOMAIN bytes : bytes[j] = 0}
    IN IF hits = {} THEN -1
       ELSE (CHOOSE j \in hits : \A h \in hits : j <= h) - 1

\* bytes[start:] for start >= 0
SliceFrom(bytes, start) ==
    IF start >= Len(bytes) THEN <<>> ELSE SubSeq(bytes, start + 1, Len(bytes))

\* bytes[:stop]; a negative stop counts from the end
SliceTo(bytes, stop) ==
    LET e == IF stop < 0 THEN Len(bytes) + stop ELSE stop
    IN IF e <= 0 THEN <<>>
       ELSE IF e >= Len(bytes) THEN bytes ELSE SubSeq(bytes, 1, e)

\* the string the function extracts (decode maps the ASCII bytes used here
\* to the characters of the same code); without an accepted entry the read
\* of mem_data raises UnboundLocalError
ExtractString(pointer, sections) ==
    LET i == FirstMatch(sections, pointer)
    IN IF i = 0 THEN [raised |-> TRUE, mem_data |-> <<>>]
       ELSE LET sliced == SliceFrom(sections[i].data, pointer - sections[i].lo)
            IN [raised |-> FALSE, mem_data |-> SliceTo(sliced, Find(sliced))]

\* C_extract_string_by_start_pointer(start_pointer, mem_pointer,
\* data_section, symbolic_memory)
CExtractStringByStartPointer ==
    /\ str_pc = "call"
    /\ LET r == ExtractString(start_pointer, data_section)
       IN /\ str_result' = r.mem_data
          /\ str_pc' = IF r.raised THEN "raised" ELSE "returned"
    /\ UNCHANGED <<data_section, start_pointer>>
    /\ UNCHANGED NotStr

\* ---- properties ----

\* the entries whose interval [lo, hi) holds the address
Holding(pointer) ==
    {i \in DOMAIN data_section :
        data_section[i].lo <= pointer /\ pointer < data_section[i].hi}

\* the bytes of entry sec from the address up to, and not including, the
\* first NUL at or after it; up to the end of the entry without one
RECURSIVE UpToNul(_, _)
UpToNul(sec, a) ==
    IF a >= sec.hi THEN <<>>
    ELSE IF sec.data[a - sec.lo + 1] = 0 THEN <<>>
    ELSE <<sec.data[a - sec.lo + 1]>> \o UpToNul(sec, a + 1)

\* C28: for every start_pointer inside a data-section interval [lo, hi) the
\* function reads from that interval and extracts exactly the bytes from
\* start_pointer up to, and not including, the first NUL byte at or after it
\* (all bytes to the end of the interval when no NUL follows), also when
\* start_pointer equals the upper bound of another interval.
C28_ExtractsString ==
    (str_pc # "call" /\ Holding(start_pointer) # {}) =>
        /\ str_pc = "returned"
        /\ \A i \in Holding(start_pointer) :
              str_result = UpToNul(data_section[i], start_pointer)

\* the same where a NUL follows in the interval and the address is not the
\* upper bound of an entry that comes earlier in the dict
C28_ExtractsTerminatedString ==
    (/\ str_pc # "call"
     /\ Holding(start_pointer) # {}
     /\ \A i \in Holding(start_pointer) :
           /\ \E a \in start_pointer..(data_section[i].hi - 1) :
                 data_section[i].data[a - data_section[i].lo + 1] = 0
           /\ \A j \in 1..(i - 1) : data_section[j].hi # start_pointer) =>
        /\ str_pc = "returned"
        /\ \A i \in Holding(start_pointer) :
              str_result = UpToNul(data_section[i], start_pointer)

NextStr == CExtractStringByStartPointer

SpecStr == InitStr /\ [][NextStr]_vars

\* ========================================================================
\* WASI host model fd_close, and fd_read / fd_write on a closed descriptor
\* (eunomia/arch/wasm/lib/wasi.py)
\* ========================================================================

\* a program that reads, writes and closes descriptors through one iov; the
\* history keeps the descriptors it has closed and counts its calls
InitClose ==
    \E lens \in {<<n>> : n \in 1..MaxIovLen} :
    \E stdin \in ReadContents :
    \E out \in {<<>>, <<Conc(104)>>} :
        /\ wasi_layout = [program |-> "closer", lens |-> lens, data |-> "concrete"]
        /\ wasi_memory = IovMemory(lens, "concrete", Len(lens))
        /\ wasi_file_sys = FilesWith(stdin, out)
        /\ wasi_stack = <<>>
        /\ wasi_constraints = <<>>
        /\ wasi_args = <<>>
        /\ wasi_call = "none"
        /\ wasi_pc = "run"
        /\ wasi_hist = [sizes_done |-> FALSE, last |-> "none", fd |-> -1,
                        initial |-> stdin.content, delivered |-> <<>>,
                        closed |-> {}, calls |-> 0]
        /\ wasi_clock = 0
        /\ SplitIdle
        /\ EmulIdle
        /\ CovIdle
        /\ GlobIdle
        /\ StrIdle

\* the program pushes fd and calls fd_close
CallFdClose ==
    /\ wasi_pc = "run"
    /\ wasi_layout.program = "closer"
    /\ CallsLeft(wasi_hist)
    /\ \E fd \in FdValues : wasi_stack' = Append(wasi_stack, Conc(fd))
    /\ wasi_call' = "fd_close"
    /\ wasi_pc' = "call"
    /\ wasi_hist' = Called(wasi_hist)
    /\ UNCHANGED <<wasi_memory, wasi_constraints, wasi_args, wasi_layout,
                   wasi_file_sys>>
    /\ UNCHANGED wasi_clock
    /\ UNCHANGED NotWasi

\* a plausible slip: the status is left as it was
FdCloseKeepsStatus(file_sys, fd) ==
    [file_sys EXCEPT ![fd] = File("", file_sys[fd].status, {}, "list", <<>>)]

\* the four assignments of fd_close: name "", status False, flag "" (no mode
\* letter), content []
FdClose(file_sys, fd) ==
    [file_sys EXCEPT ![fd] = File("", FALSE, {}, "list", <<>>)]

\* emul, self.name == 'fd_close'; state.file_sys[fd] of a descriptor that is
\* not in the table raises KeyError
EmulFdClose ==
    /\ wasi_pc = "call"
    /\ wasi_call = "fd_close"
    /\ LET p == ExtractParams(wasi_stack, 1)
           fd == p.params[1].n
       IN IF fd \notin DOMAIN wasi_file_sys
          THEN /\ wasi_stack' = p.stack
               /\ wasi_pc' = "aborted"
               /\ wasi_hist' = [wasi_hist EXCEPT !.last = "fd_close"]
               /\ UNCHANGED wasi_file_sys
          ELSE /\ wasi_file_sys' = FdClose(wasi_file_sys, fd)
               /\ wasi_stack' = Append(p.stack, Conc(0))
               /\ wasi_pc' = "returned"
               /\ wasi_hist' = [wasi_hist EXCEPT !.last = "fd_close",
                                                 !.closed = @ \cup {fd}]
    /\ UNCHANGED <<wasi_memory, wasi_constraints, wasi_args, wasi_layout,
                   wasi_call>>
    /\ UNCHANGED wasi_clock
    /\ UNCHANGED NotWasi

AtFdClose == wasi_pc = "call" /\ wasi_call = "fd_close"

C27_WitnessRead ==
    /\ wasi_pc = "aborted"
    /\ wasi_hist.last = "fd_read"
    /\ wasi_hist.closed = {0}
    /\ wasi_hist.fd = 0
    /\ wasi_hist.initial # <<>>
    /\ wasi_hist.delivered # <<>>

NextClose ==
    \/ CallFdClose
    \/ EmulFdClose
    \/ CallFdRead
    \/ EmulFdRead
    \/ CallFdWrite
    \/ EmulFdWrite
    \/ DropResult

SpecClose == InitClose /\ [][NextClose]_vars

\* ========================================================================
\* The globals of the entry state (eunomia/arch/wasm/emulator.py,
\* init_globals and init_state)
\* ========================================================================

\* z3 values: BitVecVal(v, w) and BitVec(name, w); the initial values of a
\* validated module's global section fit the declared width
BitVecVal(v, w) == [k |-> "c", n |-> v, s |-> "", w |-> w]

BitVec(name, w) == [k |-> "s", n |-> 0, s |-> name, w |-> w]

\* the types a global may be declared with and the initial values the global
\* section gives
GlobalTypes == {"i32", "i64", "f32"}

GlobalInits == {0, 7}

EntryNames == {"main", "helper"}

InitGlob ==
    \E globals \in SeqsUpTo([type : GlobalTypes, val : GlobalInits], MaxGlobals) :
    \E exported \in SUBSET EntryNames :
    \E func_name \in EntryNames :
    \E switch \in BOOLEAN :
        /\ ana_globals = globals
        /\ exported_func_names = exported
        /\ entry_func_name = func_name
        /\ concrete_globals = switch
        /\ state_globals = <<>>
        /\ glob_pc = "init"
        /\ SplitIdle
        /\ EmulIdle
        /\ CovIdle
        /\ WasiIdle
        /\ StrIdle

\* a plausible slip: the test of is_exported the wrong way round
GlobalValueSwapped(i, item, is_exported) ==
    IF item.type = "i32"
    THEN IF ~is_exported THEN BitVecVal(item.val, 32)
         ELSE BitVec("global_" \o ToString(i) \o "_i32", 32)
    ELSE IF ~is_exported THEN BitVecVal(item.val, 64)
         ELSE BitVec("global_" \o ToString(i) \o "_i64", 64)

\* op_val of init_globals for the global at index i, of type i32 or i64
GlobalValue(i, item, is_exported) ==
    IF item.type = "i32"
    THEN IF is_exported THEN BitVecVal(item.val, 32)
         ELSE BitVec("global_" \o ToString(i) \o "_i32", 32)
    ELSE IF is_exported THEN BitVecVal(item.val, 64)
         ELSE BitVec("global_" \o ToString(i) \o "_i64", 64)

\* "for i, item in enumerate(self.ana.globals)": indexes count from 0; a type
\* other than i32 and i64 raises UnsupportGlobalTypeError with the earlier
\* indexes already set
RECURSIVE init_globals(_, _, _, _)
init_globals(globals, is_exported, i, acc) ==
    IF i >= Len(globals) THEN [globals |-> acc, raised |-> FALSE]
    ELSE IF globals[i + 1].type \notin {"i32", "i64"}
         THEN [globals |-> acc, raised |-> TRUE]
         ELSE init_globals(globals, is_exported, i + 1,
                           (i :> GlobalValue(i, globals[i + 1], is_exported))
                               @@ acc)

\* init_state: is_exported is what the export list says of the entry
\* function, or True when --concrete_globals is set
init_state ==
    /\ glob_pc = "init"
    /\ LET is_exported == IF concrete_globals THEN TRUE
                          ELSE entry_func_name \in exported_func_names
           r == init_globals(ana_globals, is_exported, 0, <<>>)
       IN /\ state_globals' = r.globals
          /\ glob_pc' = IF r.raised THEN "raised" ELSE "done"
    /\ UNCHANGED <<ana_globals, exported_func_names, entry_func_name,
                   concrete_globals>>
    /\ UNCHANGED NotGlob

\* a new run starts from another entry function of the same module
NewEntry ==
    /\ glob_pc \in {"done", "raised"}
    /\ \E func_name \in EntryNames : entry_func_name' = func_name
    /\ state_globals' = <<>>
    /\ glob_pc' = "init"
    /\ UNCHANGED <<ana_globals, exported_func_names, concrete_globals>>
    /\ UNCHANGED NotGlob

GlobalIndexes == 0..(Len(ana_globals) - 1)

Width(type) == IF type = "i64" THEN 64 ELSE 32

\* the value the claim asks for at index i
HasClaimedValue(i) ==
    /\ i \in DOMAIN state_globals
    /\ IF concrete_globals \/ entry_func_name \in exported_func_names
       THEN state_globals[i]
                = BitVecVal(ana_globals[i + 1].val, Width(ana_globals[i + 1].type))
       ELSE /\ state_globals[i].k = "s"
            /\ state_globals[i].w = Width(ana_globals[i + 1].type)
            /\ \A j \in GlobalIndexes \ {i} :
                  j \in DOMAIN state_globals =>
                      state_globals[j].s # state_globals[i].s

\* C17 as stated: init_state gives every global index of the module a value:
\* the concrete initial value of the global section when the entry function
\* is exported or the concrete-globals switch is set, and otherwise a symbol
\* of the declared width that is distinct for each index.
C17_Original ==
    glob_pc \in {"done", "raised"} =>
        \A i \in GlobalIndexes : HasClaimedValue(i)

\* C17 (amended): for a module whose globals are all of type i32 or i64,
\* init_state gives every global index that value; a global of another type
\* makes init_state raise UnsupportGlobalTypeError, with values for the
\* indexes before it only.
C17_IntegerGlobals ==
    glob_pc \in {"done", "raised"} =>
        /\ (\A k \in DOMAIN ana_globals : ana_globals[k].type \in {"i32", "i64"})
              => (glob_pc = "done" /\ DOMAIN state_globals = GlobalIndexes
                    /\ \A i \in GlobalIndexes : HasClaimedValue(i))
        /\ (\E k \in DOMAIN ana_globals : ana_globals[k].type \notin {"i32", "i64"})
              => (glob_pc = "raised"
                    /\ \A i \in DOMAIN state_globals :
                          /\ HasClaimedValue(i)
                          /\ \A k \in 1..(i + 1) :
                                ana_globals[k].type \in {"i32", "i64"})

\* an i32 and an i64 global were made symbols for an entry function that is
\* not exported
C17_Witness ==
    /\ glob_pc = "done"
    /\ Len(ana_globals) = 2
    /\ ana_globals[1].type = "i32"
    /\ ana_globals[2].type = "i64"
    /\ ~concrete_globals
    /\ entry_func_name \notin exported_func_names
    /\ state_globals[0] = BitVec("global_0_i32", 32)
    /\ state_globals[1] = BitVec("global_1_i64", 64)

NextGlob == init_state \/ NewEntry

SpecGlob == InitGlob /\ [][NextGlob]_vars

\* ========================================================================
\* WASI host models that report an offset: fd_tell and fd_seek
\* (eunomia/arch/wasm/lib/wasi.py)
\* ========================================================================

\* f"{datetime.timestamp(datetime.now()):.0f}": the time in seconds rounded
\* to a whole number, halves to the even neighbour; t counts half seconds
Stamp(t) ==
    LET whole == t \div 2
    IN IF t % 2 = 0 THEN whole
       ELSE IF whole % 2 = 0 THEN whole ELSE whole + 1

\* BitVec(name, 32) as the four bytes _storeN writes
SymbolBytes(name) == [j \in 1..4 |-> Symb(name, j - 1)]

\* the addresses a program passes for the reported offset
OffsetAddrs == {FdLayout.count_addr, FdLayout.prestat_addr}

InitSeek ==
    /\ wasi_layout = [program |-> "seeker", lens |-> <<>>, data |-> "concrete"]
    /\ wasi_memory = <<>>
    /\ wasi_file_sys = StdFiles
    /\ wasi_stack = <<>>
    /\ wasi_constraints = <<>>
    /\ wasi_args = <<>>
    /\ wasi_call = "none"
    /\ wasi_pc = "run"
    /\ wasi_hist = [last |-> "none", stored |-> <<>>]
    /\ wasi_clock = 0
    /\ SplitIdle
    /\ EmulIdle
    /\ CovIdle
    /\ GlobIdle
    /\ StrIdle

\* time passes between any two steps of the run
Tick ==
    /\ wasi_pc \in {"run", "call", "returned"}
    /\ wasi_clock < MaxClock
    /\ wasi_clock' = wasi_clock + 1
    /\ UNCHANGED <<wasi_stack, wasi_memory, wasi_constraints, wasi_args,
                   wasi_layout, wasi_file_sys, wasi_call, wasi_pc, wasi_hist>>
    /\ UNCHANGED NotWasi

\* the program pushes fd and the address for the offset and calls fd_tell
CallFdTell ==
    /\ wasi_pc = "run"
    /\ wasi_layout.program = "seeker"
    /\ Len(wasi_hist.stored) < MaxSeekCalls
    /\ \E fd \in {0, 1} : \E addr \in OffsetAddrs :
          wasi_stack' = wasi_stack \o <<Conc(fd), Conc(addr)>>
    /\ wasi_call' = "fd_tell"
    /\ wasi_pc' = "call"
    /\ UNCHANGED <<wasi_memory, wasi_constraints, wasi_args, wasi_layout,
                   wasi_file_sys, wasi_hist, wasi_clock>>
    /\ UNCHANGED NotWasi

\* the program pushes fd, offset, whence and the address for the new offset
\* and calls fd_seek
CallFdSeek ==
    /\ wasi_pc = "run"
    /\ wasi_layout.program = "seeker"
    /\ Len(wasi_hist.stored) < MaxSeekCalls
    /\ \E fd \in {0, 1} : \E addr \in OffsetAddrs :
          wasi_stack' = wasi_stack \o <<Conc(fd), Conc(0), Conc(0), Conc(addr)>>
    /\ wasi_call' = "fd_seek"
    /\ wasi_pc' = "call"
    /\ UNCHANGED <<wasi_memory, wasi_constraints, wasi_args, wasi_layout,
                   wasi_file_sys, wasi_hist, wasi_clock>>
    /\ UNCHANGED NotWasi

\* the name of fd_tell_var and fd_seek_var
FdTellVar(now) == "fd_tell_" \o ToString(Stamp(now))

FdSeekVar(now) == "fd_seek_" \o ToString(Stamp(now))

\* emul, self.name == 'fd_tell'
EmulFdTell ==
    /\ wasi_pc = "call"
    /\ wasi_call = "fd_tell"
    /\ LET p == ExtractParams(wasi_stack, 2)
           offset_addr == p.params[1].n
           fd_tell_var == FdTellVar(wasi_clock)
       IN /\ wasi_memory' = StoreN(wasi_memory, offset_addr,
                                   SymbolBytes(fd_tell_var), 4)
          /\ wasi_stack' = Append(p.stack, Conc(0))
          /\ wasi_hist' = [last |-> "fd_tell",
                           stored |-> Append(wasi_hist.stored, fd_tell_var)]
    /\ wasi_pc' = "returned"
    /\ UNCHANGED <<wasi_constraints, wasi_args, wasi_layout, wasi_file_sys,
                   wasi_call, wasi_clock>>
    /\ UNCHANGED NotWasi

\* emul, self.name == 'fd_seek'
EmulFdSeek ==
    /\ wasi_pc = "call"
    /\ wasi_call = "fd_seek"
    /\ LET p == ExtractParams(wasi_stack, 4)
           new_offset_addr == p.params[1].n
           fd_seek_var == FdSeekVar(wasi_clock)
       IN /\ wasi_memory' = StoreN(wasi_memory, new_offset_addr,
                                   SymbolBytes(fd_seek_var), 4)
          /\ wasi_stack' = Append(p.stack, Conc(0))
          /\ wasi_hist' = [last |-> "fd_seek",
                           stored |-> Append(wasi_hist.stored, fd_seek_var)]
    /\ wasi_pc' = "returned"
    /\ UNCHANGED <<wasi_constraints, wasi_args, wasi_layout, wasi_file_sys,
                   wasi_call, wasi_clock>>
    /\ UNCHANGED NotWasi

AtOffsetCall == wasi_pc = "call" /\ wasi_call \in {"fd_tell", "fd_seek"}

\* C22: every fd_seek and every fd_tell call stores at the reported-offset
\* address a fresh symbol: one that differs from the symbol stored by every
\* earlier fd_seek or fd_tell call of the run, however closely in time the
\* calls follow each other.
C22_FreshOffsetSymbol ==
    [][(AtOffsetCall /\ wasi_pc' = "returned") =>
          LET addr == wasi_stack[Len(wasi_stack)].n
          IN /\ \A j \in 0..3 : MemGet(wasi_memory', addr + j).k = "s"
             /\ \A j \in 0..3 :
                   MemGet(wasi_memory', addr + j).s
                       \notin Range(wasi_hist.stored)]_vars

\* a symbol of fd_seek differs from every symbol fd_tell stored before, and
\* the other way round
C22_SeekAndTellDiffer ==
    [][(AtOffsetCall /\ wasi_pc' = "returned" /\ wasi_hist.last # wasi_call
          /\ Len(wasi_hist.stored) <= 1) =>
          LET addr == wasi_stack[Len(wasi_stack)].n
          IN \A j \in 0..3 :
                MemGet(wasi_memory', addr + j).s \notin Range(wasi_hist.stored)]_vars

NextSeek ==
    \/ Tick
    \/ CallFdTell
    \/ CallFdSeek
    \/ EmulFdTell
    \/ EmulFdSeek
    \/ DropResult

SpecSeek == InitSeek /\ [][NextSeek]_vars

====
